---- MODULE Spec2Model ----
(***************************************************************************)
(* Model of the payroll/attendance tracker: the record access layer of     *)
(* src/api/index.py (class Database over PostgreSQL, class Cache) and the  *)
(* HTTP handlers that call it, plus the desktop variant's Database of      *)
(* src/blazecore_payroll_app.py where a property names it.                 *)
(*                                                                         *)
(* A request is served by one of the processes in Procs.  A Database      *)
(* method whose statements leave a window between a read and a write runs  *)
(* in two steps (the read, then the write and its commit), so that the     *)
(* requests of two processes interleave as two PostgreSQL transactions at  *)
(* READ COMMITTED do.  The variable last records the most recently         *)
(* completed request: its operation, arguments, HTTP status, the exception *)
(* the Database method raised, and the value it returned.                  *)
(*                                                                         *)
(* The sections on the tables take the plumbing under them as working: the *)
(* module has been imported, get_connection hands out a connection of the  *)
(* pool, and a method of the Cache runs its body to the end.  What is      *)
(* modelled of a Database method is what its statements do to the tables   *)
(* and which exception leaves it.  A handler is modelled from its body, as *)
(* it runs for a client whose session holds 'logged_in'; the decorator     *)
(* login_required, login and logout are the section on sessions.  The     *)
(* plumbing itself is the matter of the sections at the end: how the       *)
(* methods of the Cache take its lock, what get_connection and the         *)
(* teardown of a request do to the connection pool, and delete_worker and  *)
(* mark_attendance statement by statement with statements that fail.       *)
(***************************************************************************)
EXTENDS Integers, Sequences, FiniteSets, TLC

VARIABLES
    workers,        \* rows of table workers: [id, name, daily_wage]
    nextWorkerId,   \* the SERIAL sequence behind workers.id
    attendance,     \* rows of table attendance: [worker_id, date, status]
    advances,       \* rows of table advances: [id, worker_id, amount, date]
    nextAdvanceId,  \* the SERIAL sequence behind advances.id
    holidays,       \* rows of table holidays: [id, date, name, type, description]
    nextHolidayId,  \* the SERIAL sequence behind holidays.id
    cache,          \* the global Cache object: [_cache, _timeouts, _last_accessed]
    now,            \* datetime.now(), in seconds
    pc,             \* per process: where its request stands
    req,            \* per process: the arguments of the request in flight
    last,           \* the most recently completed request
    deskWorkers,    \* desktop variant: rows of its workers table
    deskNextId,     \* desktop variant: AUTOINCREMENT of workers.id
    deskAdvances,   \* desktop variant: rows of its advances table
    deskAttendance, \* desktop variant: rows of its attendance table
    popup,          \* desktop variant: the CalendarPopup that is open, or NoPopup
    session,        \* per client: the Flask session its cookie carries
    login_attempts, \* the dictionary login_attempts: ip -> stamps of failed logins
    environ,        \* os.environ as far as login reads it
    pool,           \* db._pool, the SimpleConnectionPool
    lock            \* cache._lock: the thread that holds it, or Free

vars == <<workers, nextWorkerId, attendance, advances, nextAdvanceId, holidays, nextHolidayId,
          cache, now, pc, req, last, deskWorkers, deskNextId, deskAdvances, deskAttendance,
          popup, session, login_attempts, environ, pool, lock>>

dbVars == <<workers, nextWorkerId, attendance, advances, nextAdvanceId, holidays,
           nextHolidayId>>
deskVars == <<deskWorkers, deskNextId, deskAdvances, deskAttendance, popup>>
authVars == <<session, login_attempts, environ>>
plumbVars == <<pool, lock>>

(***************************************************************************)
(* Bounds of the model.                                                    *)
(***************************************************************************)
MaxWorkers == 2        \* values the workers.id sequence hands out
MaxHolidays == 2       \* values the holidays.id sequence hands out
MaxAdvances == 2       \* values the advances.id sequence hands out
MaxTicks == 1          \* how often the clock advances
MaxDeskAdvances == 2   \* rows the desktop advances table may hold

Procs == {"p1", "p2"}
Client == {"p1"}

(***************************************************************************)
(* Text.  A string is a sequence of characters; strip() and LOWER() are    *)
(* computed on it.                                                         *)
(***************************************************************************)
RECURSIVE LStrip(_)
LStrip(s) == IF s # <<>> /\ Head(s) = " " THEN LStrip(Tail(s)) ELSE s

RECURSIVE RStrip(_)
RStrip(s) == IF s # <<>> /\ s[Len(s)] = " " THEN RStrip(SubSeq(s, 1, Len(s) - 1)) ELSE s

\* strip() that forgets the trailing blanks
StripLeadingOnly(s) == LStrip(s)

Strip(s) == RStrip(LStrip(s))

LowerChar(c) == IF c = "A" THEN "a" ELSE IF c = "B" THEN "b" ELSE c

Lower(s) == [i \in 1..Len(s) |-> LowerChar(s[i])]

(***************************************************************************)
(* Exceptions and responses.                                               *)
(***************************************************************************)
NoExc == [type |-> "none", msg |-> ""]
Exc(t, m) == [type |-> t, msg |-> m]
ValueError(m) == Exc("ValueError", m)

NoArgs == [none |-> TRUE]
NoRet == <<>>
Response(op, args, status, exc, ret) ==
    [op |-> op, args |-> args, status |-> status, exc |-> exc, ret |-> ret]

Idle == [op |-> "idle"]

\* desktop variant: no CalendarPopup is open
NoPopup == [open |-> FALSE]

\* cache._lock held by no thread
Free == "free"

\* db._pool after Database(): SimpleConnectionPool opened its minconn = 1
\* connection, create_tables took it with getconn and closed it without putconn
MaxConn == 20
OpenPool == [closed |-> FALSE, idle |-> 0, used |-> 1]

(***************************************************************************)
(* Table workers (create_tables): id SERIAL PRIMARY KEY, name TEXT NOT     *)
(* NULL UNIQUE, daily_wage NUMERIC NOT NULL, phone, start_date,            *)
(* created_at.  The UNIQUE constraint compares names exactly.  phone and   *)
(* start_date are stored as given and read by nothing modelled here.       *)
(***************************************************************************)
WorkersColumns == {"id", "name", "daily_wage", "phone", "start_date", "created_at"}

WorkerIds(ws) == {w.id : w \in ws}

WorkerRow(id, name, wage) == [id |-> id, name |-> name, daily_wage |-> wage]

\* SELECT id FROM workers WHERE id = %s
WorkerExists(ws, id) == \E w \in ws : w.id = id

\* the UNIQUE constraint on workers.name, as an INSERT of name meets it
NameUniqueViolation(ws, name) == \E w \in ws : w.name = name

\* Python's truth value of a worker id: None and 0 are false
Falsy(worker_id) == worker_id = 0

(***************************************************************************)
(* Database.add_worker.                                                    *)
(***************************************************************************)
\* the checks with "daily_wage < 0" in place of "daily_wage <= 0"
AddWorkerValidationZeroWage(name, daily_wage) ==
    IF name = <<>> \/ Strip(name) = <<>> THEN ValueError("Worker name cannot be empty")
    ELSE IF daily_wage < 0 THEN ValueError("Daily wage must be greater than 0")
    ELSE NoExc

\* lines 168-169: the checks made before a connection is taken
AddWorkerValidation(name, daily_wage) ==
    IF name = <<>> \/ Strip(name) = <<>> THEN ValueError("Worker name cannot be empty")
    ELSE IF daily_wage <= 0 THEN ValueError("Daily wage must be greater than 0")
    ELSE NoExc

\* lines 173-174: SELECT id FROM workers WHERE LOWER(name) = LOWER(%s)
NameTaken(ws, name) == \E w \in ws : Lower(w.name) = Lower(Strip(name))

\* the exception add_worker raises before its INSERT, NoExc if it goes on
AddWorkerCheck(ws, name, daily_wage) ==
    IF AddWorkerValidation(name, daily_wage) # NoExc THEN AddWorkerValidation(name, daily_wage)
    ELSE IF NameTaken(ws, name) THEN ValueError("Worker already exists")
    ELSE NoExc

\* add_worker (the route): ValueError is answered 400, any other exception 500
AddWorkerStatus(exc) ==
    IF exc = NoExc THEN 200 ELSE IF exc.type = "ValueError" THEN 400 ELSE 500

\* requests of other processes that will still draw from the workers.id sequence
PendingInserts == Cardinality({q \in Procs : pc[q] = "add_insert"})

\* The route strips the name, add_worker validates it and runs its SELECT.
AddWorkerCall(p, name, wage) ==
    LET n == Strip(name)
        e == AddWorkerCheck(workers, n, wage)
        a == [name |-> name, wage |-> wage]
    IN  /\ pc[p] = "idle"
        /\ IF e # NoExc
           THEN /\ last' = Response("add_worker", a, AddWorkerStatus(e), e, NoRet)
                /\ UNCHANGED <<pc, req>>
           ELSE /\ nextWorkerId + PendingInserts <= MaxWorkers
                /\ pc' = [pc EXCEPT ![p] = "add_insert"]
                /\ req' = [req EXCEPT ![p] = a]
                /\ UNCHANGED last
        /\ UNCHANGED <<authVars, plumbVars, dbVars, cache, now, deskVars>>

\* INSERT INTO workers ... RETURNING id, and the commit.  The sequence value is
\* drawn before the UNIQUE constraint is checked and is not given back.
AddWorkerInsert(p) ==
    LET n == Strip(Strip(req[p].name))
        id == nextWorkerId
    IN  /\ pc[p] = "add_insert"
        /\ nextWorkerId' = nextWorkerId + 1
        /\ IF NameUniqueViolation(workers, n)
           THEN /\ UNCHANGED workers
                /\ last' = Response("add_worker", req[p],
                                    AddWorkerStatus(Exc("IntegrityError", "duplicate key")),
                                    Exc("IntegrityError", "duplicate key"), NoRet)
           ELSE /\ workers' = workers \cup {WorkerRow(id, n, req[p].wage)}
                /\ last' = Response("add_worker", req[p], AddWorkerStatus(NoExc), NoExc, id)
        /\ pc' = [pc EXCEPT ![p] = "idle"]
        /\ req' = [req EXCEPT ![p] = Idle]
        /\ UNCHANGED <<authVars, plumbVars, attendance, advances, nextAdvanceId, holidays, nextHolidayId, cache, now,
                       deskVars>>

(***************************************************************************)
(* Database.get_worker and Database.get_workers.                           *)
(***************************************************************************)
None == [none |-> TRUE]

\* SELECT * FROM workers WHERE id = %s; daily_wage is returned as a float
GetWorker(ws, worker_id) ==
    IF WorkerExists(ws, worker_id)
    THEN LET w == CHOOSE w \in ws : w.id = worker_id
         IN  [id |-> w.id, name |-> w.name, daily_wage |-> w.daily_wage]
    ELSE None

CharRank(c) == IF c = " " THEN 0 ELSE IF c = "A" THEN 1 ELSE IF c = "B" THEN 2
               ELSE IF c = "a" THEN 3 ELSE 4

RECURSIVE NameLess(_, _)
NameLess(s, t) ==
    IF s = <<>> THEN t # <<>>
    ELSE IF t = <<>> THEN FALSE
    ELSE IF Head(s) # Head(t) THEN CharRank(Head(s)) < CharRank(Head(t))
    ELSE NameLess(Tail(s), Tail(t))

\* SELECT * FROM workers ORDER BY name, as a list
RECURSIVE GetWorkers(_)
GetWorkers(ws) ==
    IF ws = {} THEN <<>>
    ELSE LET w == CHOOSE w \in ws :
                     \A v \in ws : v = w \/ NameLess(w.name, v.name)
                                         \/ (w.name = v.name /\ w.id < v.id)
         IN  <<[id |-> w.id, name |-> w.name, daily_wage |-> w.daily_wage]>>
             \o GetWorkers(ws \ {w})

(***************************************************************************)
(* Cursors.  "with conn.cursor() as cursor" closes the cursor when the     *)
(* block is left, also by an exception; update_worker and delete_worker    *)
(* then run cursor.execute("ROLLBACK") in their except clause, outside the *)
(* block.  psycopg2 answers execute() on a closed cursor with              *)
(* InterfaceError, which leaves the except clause in place of the          *)
(* exception being handled; conn.close() in the finally clause discards    *)
(* the open transaction.                                                   *)
(***************************************************************************)
CursorClosed == Exc("InterfaceError", "cursor already closed")

\* the exception that leaves "except Exception as e: cursor.execute(ROLLBACK); raise"
\* when the with-block raised e
RollbackOnCursor(e) == IF e = NoExc THEN NoExc ELSE CursorClosed

(***************************************************************************)
(* Database.update_worker.                                                 *)
(***************************************************************************)
MaxDailyWage == 5000

\* lines 414-427: the checks made before a connection is taken
UpdateWorkerValidation(worker_id, name, daily_wage) ==
    IF Falsy(worker_id) THEN ValueError("Worker ID is required")
    ELSE IF name = <<>> \/ Strip(name) = <<>> THEN ValueError("Worker name cannot be empty")
    ELSE IF daily_wage <= 0 THEN ValueError("Daily wage must be greater than 0")
    ELSE IF daily_wage > MaxDailyWage THEN ValueError("Daily wage seems too high")
    ELSE NoExc

\* the columns the UPDATE statement of lines 447-454 assigns
UpdateWorkerSetColumns == {"name", "daily_wage", "updated_at"}

\* lines 442-444: SELECT id FROM workers WHERE LOWER(name) = LOWER(%s) AND id != %s
NameTakenByOther(ws, name, worker_id) ==
    \E w \in ws : Lower(w.name) = Lower(name) /\ w.id # worker_id

\* lines 432-459, the with-block: the exception it raises, and the table it commits
UpdateWorkerBlock(ws, worker_id, name, daily_wage) ==
    IF ~WorkerExists(ws, worker_id)
    THEN [exc |-> ValueError("Worker not found"), workers |-> ws]
    ELSE IF NameTakenByOther(ws, name, worker_id)
    THEN [exc |-> ValueError("Worker already exists"), workers |-> ws]
    ELSE IF ~(UpdateWorkerSetColumns \subseteq WorkersColumns)
    THEN [exc |-> Exc("ProgrammingError", "column updated_at does not exist"), workers |-> ws]
    ELSE IF \E w \in ws : w.id # worker_id /\ w.name = name
    THEN [exc |-> Exc("IntegrityError", "duplicate key"), workers |-> ws]
    ELSE [exc |-> NoExc,
          workers |-> {IF w.id = worker_id THEN WorkerRow(w.id, name, daily_wage) ELSE w
                       : w \in ws}]

\* update_worker as a whole: the exception it raises, and the table it leaves
UpdateWorkerResult(ws, worker_id, name, daily_wage) ==
    LET v == UpdateWorkerValidation(worker_id, name, daily_wage)
        n == Strip(name)
        b == UpdateWorkerBlock(ws, worker_id, n, daily_wage)
    IN  IF v # NoExc THEN [exc |-> v, workers |-> ws]
        ELSE IF b.exc # NoExc THEN [exc |-> RollbackOnCursor(b.exc), workers |-> ws]
        ELSE b

\* update_worker_api: ValueError is answered 400, any other exception 500
UpdateWorkerStatus(exc) ==
    IF exc = NoExc THEN 200 ELSE IF exc.type = "ValueError" THEN 400 ELSE 500

\* PUT /api/update_worker/<id>.  SELECT ... FOR UPDATE holds the row's lock to
\* the end of the transaction, and the statements that follow it write nothing
\* another transaction sees before the commit: the request is one step.
UpdateWorker(p, worker_id, name, wage) ==
    LET r == UpdateWorkerResult(workers, worker_id, Strip(name), wage)
    IN  /\ pc[p] = "idle"
        /\ workers' = r.workers
        /\ last' = Response("update_worker",
                            [worker_id |-> worker_id, name |-> name, wage |-> wage],
                            UpdateWorkerStatus(r.exc), r.exc, NoRet)
        /\ UNCHANGED <<authVars, plumbVars, nextWorkerId, attendance, advances, nextAdvanceId, holidays,
                       nextHolidayId, cache, now, pc, req, deskVars>>

(***************************************************************************)
(* Database.delete_worker.                                                 *)
(***************************************************************************)
\* the with-block without "if not cursor.fetchone(): raise ValueError"
DeleteWorkerBlockSilent(ws, att, adv, worker_id) ==
    [exc |-> NoExc,
     workers |-> {w \in ws : w.id # worker_id},
     attendance |-> {a \in att : a.worker_id # worker_id},
     advances |-> {a \in adv : a.worker_id # worker_id}]

\* lines 377-397, the with-block: the exception it raises, and the tables it commits
DeleteWorkerBlock(ws, att, adv, worker_id) ==
    IF ~WorkerExists(ws, worker_id)
    THEN [exc |-> ValueError("Worker not found"),
          workers |-> ws, attendance |-> att, advances |-> adv]
    ELSE [exc |-> NoExc,
          workers |-> {w \in ws : w.id # worker_id},
          attendance |-> {a \in att : a.worker_id # worker_id},
          advances |-> {a \in adv : a.worker_id # worker_id}]

\* delete_worker as a whole
DeleteWorkerResult(ws, att, adv, worker_id) ==
    LET b == DeleteWorkerBlock(ws, att, adv, worker_id)
        same == [workers |-> ws, attendance |-> att, advances |-> adv]
    IN  IF Falsy(worker_id)
        THEN [exc |-> ValueError("Worker ID is required")] @@ same
        ELSE IF b.exc # NoExc THEN [exc |-> RollbackOnCursor(b.exc)] @@ same
        ELSE b

\* delete_worker_api: every exception is answered 400
DeleteWorkerStatus(exc) == IF exc = NoExc THEN 200 ELSE 400

\* DELETE /api/delete_worker/<id>, one transaction under the row lock of
\* SELECT ... FOR UPDATE
DeleteWorker(p, worker_id) ==
    LET r == DeleteWorkerResult(workers, attendance, advances, worker_id)
    IN  /\ pc[p] = "idle"
        /\ workers' = r.workers
        /\ attendance' = r.attendance
        /\ advances' = r.advances
        /\ last' = Response("delete_worker", [worker_id |-> worker_id],
                            DeleteWorkerStatus(r.exc), r.exc, NoRet)
        /\ UNCHANGED <<authVars, plumbVars, nextWorkerId, nextAdvanceId, holidays, nextHolidayId, cache, now, pc,
                       req, deskVars>>

(***************************************************************************)
(* Dates.  A date is <<year, month, day>>; NoDate is a request field that  *)
(* is missing or empty.                                                    *)
(***************************************************************************)
NoDate == <<>>
Year(d) == d[1]
Month(d) == d[2]
Day(d) == d[3]

\* calendar.monthrange(year, month)[1]
IsLeap(y) == (y % 4 = 0 /\ y % 100 # 0) \/ y % 400 = 0
DaysInMonth(y, m) ==
    IF m = 2 THEN (IF IsLeap(y) THEN 29 ELSE 28)
    ELSE IF m \in {4, 6, 9, 11} THEN 30 ELSE 31

DateLess(d, e) ==
    \/ Year(d) < Year(e)
    \/ Year(d) = Year(e) /\ Month(d) < Month(e)
    \/ Year(d) = Year(e) /\ Month(d) = Month(e) /\ Day(d) < Day(e)

(***************************************************************************)
(* Table holidays and Database.is_holiday.                                 *)
(***************************************************************************)
\* SELECT name FROM holidays WHERE date = %s; fetchone() as a dict, or None
IsHoliday(hs, date) ==
    IF \E h \in hs : h.date = date
    THEN [name |-> (CHOOSE h \in hs : h.date = date).name]
    ELSE None

(***************************************************************************)
(* Table attendance (create_tables): worker_id REFERENCES workers(id) ON   *)
(* DELETE CASCADE, date, status, UNIQUE(worker_id, date).                  *)
(***************************************************************************)
ValidStatuses == {"Present", "Half Day", "Absent", "unmarked"}

AttendanceRow(worker_id, date, status) ==
    [worker_id |-> worker_id, date |-> date, status |-> status]

\* a plain INSERT, with no ON CONFLICT clause and no UNIQUE constraint behind it
InsertOnly(att, worker_id, date, status) ==
    att \cup {AttendanceRow(worker_id, date, status)}

\* INSERT ... ON CONFLICT (worker_id, date) DO UPDATE SET status = EXCLUDED.status
Upsert(att, worker_id, date, status) ==
    IF \E a \in att : a.worker_id = worker_id /\ a.date = date
    THEN {IF a.worker_id = worker_id /\ a.date = date
          THEN AttendanceRow(worker_id, date, status) ELSE a : a \in att}
    ELSE att \cup {AttendanceRow(worker_id, date, status)}

\* DELETE FROM attendance WHERE worker_id = %s AND date = %s
Unmark(att, worker_id, date) ==
    {a \in att : ~(a.worker_id = worker_id /\ a.date = date)}

(***************************************************************************)
(* Database.mark_attendance.                                               *)
(***************************************************************************)
\* lines 211-214: the checks made before a connection is taken
MarkValidation(worker_id, date_str, status) ==
    IF Falsy(worker_id) \/ date_str = NoDate
    THEN ValueError("Worker ID and date are required")
    ELSE IF status \notin ValidStatuses THEN ValueError("Invalid attendance status")
    ELSE NoExc

\* the exception mark_attendance raises before it writes, NoExc if it goes on
MarkCheck(ws, worker_id, date_str, status) ==
    IF MarkValidation(worker_id, date_str, status) # NoExc
    THEN MarkValidation(worker_id, date_str, status)
    ELSE IF ~WorkerExists(ws, worker_id) THEN ValueError("Worker not found")
    ELSE NoExc

\* lines 225-236: the statement mark_attendance runs, on the tables as they are
\* when it runs: the exception it raises, and the table it commits
MarkStatement(ws, att, worker_id, date_str, status) ==
    IF status = "unmarked"
    THEN [exc |-> NoExc, attendance |-> Unmark(att, worker_id, date_str)]
    ELSE IF ~WorkerExists(ws, worker_id)
    THEN [exc |-> Exc("IntegrityError", "foreign key"), attendance |-> att]
    ELSE [exc |-> NoExc, attendance |-> Upsert(att, worker_id, date_str, status)]

\* mark_attendance_api: the one except clause answers every exception 500
MarkStatus(exc) == IF exc = NoExc THEN 200 ELSE 500

\* POST /api/mark_attendance up to the SELECT that verifies the worker
MarkCall(p, worker_id, date_str, status) ==
    LET e == MarkCheck(workers, worker_id, date_str, status)
        a == [worker_id |-> worker_id, date |-> date_str, status |-> status]
    IN  /\ pc[p] = "idle"
        /\ IF e # NoExc
           THEN /\ last' = Response("mark_attendance", a, MarkStatus(e), e, NoRet)
                /\ UNCHANGED <<pc, req>>
           ELSE /\ pc' = [pc EXCEPT ![p] = "mark_write"]
                /\ req' = [req EXCEPT ![p] = a]
                /\ UNCHANGED last
        /\ UNCHANGED <<authVars, plumbVars, dbVars, cache, now, deskVars>>

\* the DELETE or the upsert, the commit, and the holiday lookup whose result
\* mark_attendance returns
MarkWrite(p) ==
    LET a == req[p]
        r == MarkStatement(workers, attendance, a.worker_id, a.date, a.status)
    IN  /\ pc[p] = "mark_write"
        /\ attendance' = r.attendance
        /\ last' = Response("mark_attendance", a, MarkStatus(r.exc), r.exc,
                            IF r.exc = NoExc THEN IsHoliday(holidays, a.date) ELSE NoRet)
        /\ pc' = [pc EXCEPT ![p] = "idle"]
        /\ req' = [req EXCEPT ![p] = Idle]
        /\ UNCHANGED <<authVars, plumbVars, workers, nextWorkerId, advances, nextAdvanceId, holidays, nextHolidayId,
                       cache, now, deskVars>>

(***************************************************************************)
(* class Cache.  _cache, _timeouts and _last_accessed are dictionaries,    *)
(* here functions on their key sets.  The hit and miss counters feed only  *)
(* get_stats and are left out.  The methods are modelled by what their     *)
(* bodies do to the dictionaries; how they take self._lock is not part of  *)
(* this section.                                                           *)
(***************************************************************************)
CacheMaxSize == 1000
CacheDefaultTimeout == 300

Restrict(f, S) == [k \in S |-> f[k]]
Put(f, key, v) == [k \in DOMAIN f \cup {key} |-> IF k = key THEN v ELSE f[k]]

\* Cache.delete (lines 565-572)
CacheDelete(c, key) ==
    IF key \in DOMAIN c._cache
    THEN [_cache |-> Restrict(c._cache, DOMAIN c._cache \ {key}),
          _timeouts |-> Restrict(c._timeouts, DOMAIN c._timeouts \ {key}),
          _last_accessed |-> Restrict(c._last_accessed, DOMAIN c._last_accessed \ {key})]
    ELSE c

\* Cache.cleanup (lines 574-580): delete every key whose timeout lies before t
RECURSIVE CacheDeleteAll(_, _)
CacheDeleteAll(c, keys) ==
    IF keys = {} THEN c
    ELSE LET k == CHOOSE k \in keys : TRUE
         IN  CacheDeleteAll(CacheDelete(c, k), keys \ {k})

CacheCleanup(c, t) ==
    CacheDeleteAll(c, {k \in DOMAIN c._timeouts : t > c._timeouts[k]})

\* get with "now <= self._timeouts[key]" in place of "now < self._timeouts[key]"
CacheGetAtExpiry(c, key, t) ==
    LET c1 == CacheCleanup(c, t)
    IN  IF key \in DOMAIN c1._cache /\ t <= c1._timeouts[key]
        THEN [cache |-> [c1 EXCEPT !._last_accessed = Put(c1._last_accessed, key, t)],
              hit |-> TRUE, value |-> c1._cache[key]]
        ELSE [cache |-> c1, hit |-> FALSE, value |-> <<>>]

\* Cache.get (lines 535-547) at time t: the cache it leaves, whether it found
\* the key, and the value it returns (None when it did not)
CacheGet(c, key, t) ==
    LET c1 == CacheCleanup(c, t)
    IN  IF key \in DOMAIN c1._cache /\ t < c1._timeouts[key]
        THEN [cache |-> [c1 EXCEPT !._last_accessed = Put(c1._last_accessed, key, t)],
              hit |-> TRUE, value |-> c1._cache[key]]
        ELSE [cache |-> c1, hit |-> FALSE, value |-> <<>>]

\* the keys min(self._last_accessed.items(), key=...) may return: the dictionary's
\* order among equally old keys is not modelled
LruKeys(c) ==
    {k \in DOMAIN c._last_accessed :
        \A j \in DOMAIN c._last_accessed : c._last_accessed[k] <= c._last_accessed[j]}

\* set that evicts a most recently accessed key
CacheSetEvictsNewest(c, key, value, timeout_seconds, t, lru) ==
    LET c1 == CacheCleanup(c, t)
        mru == CHOOSE k \in DOMAIN c1._last_accessed :
                   \A j \in DOMAIN c1._last_accessed :
                       c1._last_accessed[j] <= c1._last_accessed[k]
        c2 == IF Cardinality(DOMAIN c1._cache) >= CacheMaxSize THEN CacheDelete(c1, mru) ELSE c1
    IN  [_cache |-> Put(c2._cache, key, value),
         _timeouts |-> Put(c2._timeouts, key, t + timeout_seconds),
         _last_accessed |-> Put(c2._last_accessed, key, t)]

\* Cache.set (lines 549-563) at time t, evicting lru when the cache is full
CacheSet(c, key, value, timeout_seconds, t, lru) ==
    LET c1 == CacheCleanup(c, t)
        c2 == IF Cardinality(DOMAIN c1._cache) >= CacheMaxSize THEN CacheDelete(c1, lru) ELSE c1
    IN  [_cache |-> Put(c2._cache, key, value),
         _timeouts |-> Put(c2._timeouts, key, t + timeout_seconds),
         _last_accessed |-> Put(c2._last_accessed, key, t)]

\* the keys a set() on cache c at time t may evict (one placeholder when none is)
Victims(c, t) ==
    LET c1 == CacheCleanup(c, t)
    IN  IF Cardinality(DOMAIN c1._cache) >= CacheMaxSize THEN LruKeys(c1) ELSE {<<"none">>}

(***************************************************************************)
(* Database.get_attendance.                                                *)
(***************************************************************************)
AttendanceKey(worker_id, year, month) == <<"attendance", worker_id, year, month>>

\* the rows of the SELECT of lines 265-272, before ORDER BY
AttendanceOfMonth(att, worker_id, year, month) ==
    {[date |-> a.date, status |-> a.status] :
        a \in {b \in att : b.worker_id = worker_id /\ Year(b.date) = year
                                                  /\ Month(b.date) = month}}

\* ORDER BY date DESC
RECURSIVE SortByDateDesc(_)
SortByDateDesc(rows) ==
    IF rows = {} THEN <<>>
    ELSE LET r == CHOOSE r \in rows : \A q \in rows : ~DateLess(r.date, q.date)
         IN  <<r>> \o SortByDateDesc(rows \ {r})

QueryAttendance(att, worker_id, year, month) ==
    SortByDateDesc(AttendanceOfMonth(att, worker_id, year, month))

\* Python's truth value of cache.get's result: None and the empty list are false
Truthy(got) == got.hit /\ got.value # <<>>

\* get_attendance as a whole at time t: the list it returns, and the cache it leaves
GetAttendanceResult(c, att, worker_id, year, month, t, lru) ==
    LET key == AttendanceKey(worker_id, year, month)
        got == CacheGet(c, key, t)
        result == QueryAttendance(att, worker_id, year, month)
    IN  IF Truthy(got)
        THEN [ret |-> got.value, cache |-> got.cache]
        ELSE [ret |-> result,
              cache |-> CacheSet(got.cache, key, result, CacheDefaultTimeout, t, lru)]

\* a call of db.get_attendance(worker_id, year, month)
GetAttendance(p, worker_id, year, month) ==
    /\ pc[p] = "idle"
    /\ \E lru \in Victims(CacheGet(cache, AttendanceKey(worker_id, year, month), now).cache, now) :
         LET r == GetAttendanceResult(cache, attendance, worker_id, year, month, now, lru)
         IN  /\ cache' = r.cache
             /\ last' = Response("get_attendance",
                                 [worker_id |-> worker_id, year |-> year, month |-> month],
                                 200, NoExc, r.ret)
    /\ UNCHANGED <<authVars, plumbVars, dbVars, now, pc, req, deskVars>>

\* time passes
TickSeconds == 400
Tick ==
    /\ now < MaxTicks * TickSeconds
    /\ now' = now + TickSeconds
    /\ UNCHANGED <<authVars, plumbVars, dbVars, cache, pc, req, last, deskVars>>

\* time passes by half a time-to-live, up to two of them
CacheTick ==
    /\ now < 2 * CacheDefaultTimeout
    /\ now' = now + (CacheDefaultTimeout \div 2)
    /\ UNCHANGED <<authVars, plumbVars, dbVars, cache, pc, req, last, deskVars>>

(***************************************************************************)
(* Database.add_holiday and Database.delete_holiday.                       *)
(***************************************************************************)
\* a row of table holidays (create_tables): id SERIAL, date DATE NOT NULL UNIQUE,
\* name, type, description
HolidayRow(id, date, name, holiday_type, description) ==
    [id |-> id, date |-> date, name |-> name, type |-> holiday_type,
     description |-> description]

\* add_holiday with INSERT ... ON CONFLICT (date) DO UPDATE in place of the INSERT
AddHolidayOverwrites(hs, id, date_str, name, holiday_type, description) ==
    IF name = <<>> \/ Strip(name) = <<>>
    THEN [exc |-> ValueError("Holiday name cannot be empty"), holidays |-> hs, drew |-> FALSE]
    ELSE IF date_str = NoDate
    THEN [exc |-> ValueError("Holiday already exists"), holidays |-> hs, drew |-> TRUE]
    ELSE [exc |-> NoExc, drew |-> TRUE,
          holidays |-> {h \in hs : h.date # date_str}
                       \cup {HolidayRow(id, date_str, Strip(name), holiday_type, description)}]

\* add_holiday: the exception it raises, and the table it commits.  A date that
\* is missing violates NOT NULL and a date that has a holiday violates UNIQUE;
\* both raise IntegrityError, which add_holiday turns into ValueError.  The
\* sequence value the INSERT drew is not given back.
AddHolidayResult(hs, id, date_str, name, holiday_type, description) ==
    IF name = <<>> \/ Strip(name) = <<>>
    THEN [exc |-> ValueError("Holiday name cannot be empty"), holidays |-> hs, drew |-> FALSE]
    ELSE IF date_str = NoDate \/ \E h \in hs : h.date = date_str
    THEN [exc |-> ValueError("Holiday already exists"), holidays |-> hs, drew |-> TRUE]
    ELSE [exc |-> NoExc, drew |-> TRUE,
          holidays |-> hs \cup {HolidayRow(id, date_str, Strip(name), holiday_type,
                                           description)}]

\* add_holiday_api: ValueError is answered 400, any other exception 500
AddHolidayStatus(exc) ==
    IF exc = NoExc THEN 200 ELSE IF exc.type = "ValueError" THEN 400 ELSE 500

\* POST /api/holidays
AddHoliday(p, date_str, name, holiday_type, description) ==
    LET r == AddHolidayResult(holidays, nextHolidayId, date_str, name, holiday_type,
                              description)
    IN  /\ pc[p] = "idle"
        /\ r.drew => nextHolidayId <= MaxHolidays
        /\ holidays' = r.holidays
        /\ nextHolidayId' = IF r.drew THEN nextHolidayId + 1 ELSE nextHolidayId
        /\ last' = Response("add_holiday",
                            [date |-> date_str, name |-> name, type |-> holiday_type,
                             description |-> description],
                            AddHolidayStatus(r.exc), r.exc, NoRet)
        /\ UNCHANGED <<authVars, plumbVars, workers, nextWorkerId, attendance, advances, nextAdvanceId, cache, now,
                       pc, req, deskVars>>

\* DELETE /api/holidays/<id>: DELETE FROM holidays WHERE id = %s
DeleteHoliday(p, holiday_id) ==
    /\ pc[p] = "idle"
    /\ holidays' = {h \in holidays : h.id # holiday_id}
    /\ last' = Response("delete_holiday", [holiday_id |-> holiday_id], 200, NoExc, NoRet)
    /\ UNCHANGED <<authVars, plumbVars, workers, nextWorkerId, attendance, advances, nextAdvanceId, nextHolidayId,
                   cache, now, pc, req, deskVars>>

(***************************************************************************)
(* Database.add_advance.  Table advances: id SERIAL, worker_id REFERENCES  *)
(* workers(id) ON DELETE CASCADE, amount NUMERIC, date, note.              *)
(***************************************************************************)
MaxAdvanceAmount == 50000
MonthlyAdvanceLimit == 100000

\* the checks with "amount >= 50000" in place of "amount > 50000"
AddAdvanceValidationAtCeiling(worker_id, amount, date_str) ==
    IF Falsy(worker_id) THEN ValueError("Worker ID is required")
    ELSE IF amount <= 0 THEN ValueError("Advance amount must be greater than 0")
    ELSE IF amount >= MaxAdvanceAmount THEN ValueError("Advance amount seems too high")
    ELSE IF date_str = NoDate THEN ValueError("Date is required")
    ELSE NoExc

\* lines 315-328: the checks made before a connection is taken; amount is
\* float(amount) by then
AddAdvanceValidation(worker_id, amount, date_str) ==
    IF Falsy(worker_id) THEN ValueError("Worker ID is required")
    ELSE IF amount <= 0 THEN ValueError("Advance amount must be greater than 0")
    ELSE IF amount > MaxAdvanceAmount THEN ValueError("Advance amount seems too high")
    ELSE IF date_str = NoDate THEN ValueError("Date is required")
    ELSE NoExc

RECURSIVE SumAmounts(_)
SumAmounts(rows) ==
    IF rows = {} THEN 0
    ELSE LET r == CHOOSE r \in rows : TRUE IN r.amount + SumAmounts(rows \ {r})

\* SELECT COALESCE(SUM(amount), 0) ... WHERE worker_id = %s AND date BETWEEN the
\* first and the last day of date_str's month
MonthTotal(adv, worker_id, date_str) ==
    SumAmounts({a \in adv : a.worker_id = worker_id /\ Year(a.date) = Year(date_str)
                                                   /\ Month(a.date) = Month(date_str)})

\* The Python types of the operands of "total_advances + amount" (line 350):
\* psycopg2 returns a NUMERIC as decimal.Decimal, and amount is a float.
TotalAdvancesType == "Decimal"
AmountType == "float"

\* a + that adds a Decimal and a float
PyAddWorks(t1, t2) == FALSE

\* Python's + raises TypeError for a Decimal and a float
PyAddRaises(t1, t2) == {t1, t2} = {"Decimal", "float"}

\* lines 332-363, the with-block: the exception it raises, and the table it commits
AddAdvanceBlock(ws, adv, id, worker_id, amount, date_str) ==
    IF ~WorkerExists(ws, worker_id)
    THEN [exc |-> ValueError("Worker not found"), advances |-> adv]
    ELSE IF PyAddRaises(TotalAdvancesType, AmountType)
    THEN [exc |-> Exc("TypeError", "unsupported operand type(s) for +"), advances |-> adv]
    ELSE IF MonthTotal(adv, worker_id, date_str) + amount > MonthlyAdvanceLimit
    THEN [exc |-> ValueError("Total advances for the month would exceed 100,000"),
          advances |-> adv]
    ELSE [exc |-> NoExc,
          advances |-> adv \cup {[id |-> id, worker_id |-> worker_id,
                                  amount |-> amount, date |-> date_str]}]

\* add_advance as a whole; its except clause rolls back on the connection and
\* re-raises
AddAdvanceResult(ws, adv, id, worker_id, amount, date_str) ==
    IF AddAdvanceValidation(worker_id, amount, date_str) # NoExc
    THEN [exc |-> AddAdvanceValidation(worker_id, amount, date_str), advances |-> adv]
    ELSE AddAdvanceBlock(ws, adv, id, worker_id, amount, date_str)

\* add_advance_api answers ValueError 400 and any other exception 500;
\* give_advance_api answers every exception 500
AddAdvanceStatus(route, exc) ==
    IF exc = NoExc THEN 200
    ELSE IF route = "add_advance" /\ exc.type = "ValueError" THEN 400
    ELSE 500

\* POST /api/add_advance/<id> and POST /api/give_advance as one step: all a
\* request does when no other request runs beside it.
AddAdvance(p, route, worker_id, amount, date_str) ==
    LET r == AddAdvanceResult(workers, advances, nextAdvanceId, worker_id, amount, date_str)
    IN  /\ pc[p] = "idle"
        /\ nextAdvanceId <= MaxAdvances
        /\ advances' = r.advances
        /\ nextAdvanceId' = IF r.exc = NoExc THEN nextAdvanceId + 1 ELSE nextAdvanceId
        /\ last' = Response(route,
                            [worker_id |-> worker_id, amount |-> amount, date |-> date_str],
                            AddAdvanceStatus(route, r.exc), r.exc, NoRet)
        /\ UNCHANGED <<authVars, plumbVars, workers, nextWorkerId, attendance, holidays, nextHolidayId,
                       cache, now, pc, req, deskVars>>

\* add_advance in the two steps in which the transactions of two requests
\* interleave at READ COMMITTED.  No statement locks a row: the SELECT of the
\* monthly total sees what is committed when it runs, and the INSERT follows
\* in a later step.  MaxStoredAdvances rows may be in the table from the start.
MaxStoredAdvances == 1
PendingAdvances == Cardinality({q \in Procs : pc[q] = "advance_write"})

\* the checks, the SELECT that verifies the worker and the SELECT of the total
AddAdvanceRead(p, route, worker_id, amount, date_str) ==
    LET v == AddAdvanceValidation(worker_id, amount, date_str)
        e == IF v # NoExc THEN v
             ELSE IF ~WorkerExists(workers, worker_id) THEN ValueError("Worker not found")
             ELSE NoExc
        a == [worker_id |-> worker_id, amount |-> amount, date |-> date_str]
    IN  /\ pc[p] = "idle"
        /\ IF e # NoExc
           THEN /\ last' = Response(route, a, AddAdvanceStatus(route, e), e, NoRet)
                /\ UNCHANGED <<pc, req>>
           ELSE /\ nextAdvanceId + PendingAdvances <= MaxStoredAdvances + MaxAdvances
                /\ pc' = [pc EXCEPT ![p] = "advance_write"]
                /\ req' = [req EXCEPT ![p] =
                              [op |-> route, args |-> a,
                               total_advances |-> MonthTotal(advances, worker_id, date_str)]]
                /\ UNCHANGED last
        /\ UNCHANGED <<authVars, plumbVars, dbVars, cache, now, deskVars>>

\* "if total_advances + amount > 100000", the INSERT and the commit
AddAdvanceWrite(p) ==
    LET a == req[p].args
        e == IF PyAddRaises(TotalAdvancesType, AmountType)
             THEN Exc("TypeError", "unsupported operand type(s) for +")
             ELSE IF req[p].total_advances + a.amount > MonthlyAdvanceLimit
             THEN ValueError("Total advances for the month would exceed 100,000")
             ELSE NoExc
    IN  /\ pc[p] = "advance_write"
        /\ IF e = NoExc
           THEN /\ advances' = advances \cup {[id |-> nextAdvanceId, worker_id |-> a.worker_id,
                                               amount |-> a.amount, date |-> a.date]}
                /\ nextAdvanceId' = nextAdvanceId + 1
           ELSE UNCHANGED <<advances, nextAdvanceId>>
        /\ last' = Response(req[p].op, a, AddAdvanceStatus(req[p].op, e), e, NoRet)
        /\ pc' = [pc EXCEPT ![p] = "idle"]
        /\ req' = [req EXCEPT ![p] = Idle]
        /\ UNCHANGED <<authVars, plumbVars, workers, nextWorkerId, attendance, holidays, nextHolidayId,
                       cache, now, deskVars>>

\* ORDER BY date DESC over rows of table advances; rows of one date come in
\* the order of their ids
RECURSIVE SortAdvances(_)
SortAdvances(rows) ==
    IF rows = {} THEN <<>>
    ELSE LET r == CHOOSE r \in rows :
                     \A q \in rows : DateLess(q.date, r.date) \/ (q.date = r.date /\ r.id <= q.id)
         IN  <<[amount |-> r.amount, date |-> r.date]>> \o SortAdvances(rows \ {r})

\* Database.get_advances: the rows of the month as a list, amounts as stored
GetAdvances(adv, worker_id, year, month) ==
    SortAdvances({b \in adv : b.worker_id = worker_id /\ Year(b.date) = year
                                                     /\ Month(b.date) = month})

(***************************************************************************)
(* Aggregation: the handlers that compute figures from the lists record    *)
(* access returns.  A Python float is held as a whole number of            *)
(* hundredths; every float these handlers compute from whole rupees and    *)
(* half days is one.                                                       *)
(***************************************************************************)
\* float(x) of a whole number x
Float(x) == 100 * x

\* x / 2 and x * 0.5 of a float x
Half(x) == x \div 2

\* len([a for a in attendance if a['status'] == status])
RECURSIVE CountStatus(_, _)
CountStatus(list, status) ==
    IF list = <<>> THEN 0
    ELSE (IF Head(list).status = status THEN 1 ELSE 0) + CountStatus(Tail(list), status)

\* sum(float(a['amount']) for a in advances)
RECURSIVE SumFloatAmounts(_)
SumFloatAmounts(list) ==
    IF list = <<>> THEN 0 ELSE Float(Head(list).amount) + SumFloatAmounts(Tail(list))

\* the get_attendance calls a handler makes for the workers of list ws, one
\* after the other at time t: the lists they return, and the cache they leave
RECURSIVE FetchAttendance(_, _, _, _, _, _)
FetchAttendance(c, att, ws, year, month, t) ==
    IF ws = <<>> THEN [lists |-> <<>>, cache |-> c]
    ELSE LET r == GetAttendanceResult(c, att, Head(ws).id, year, month, t, <<"none">>)
             rest == FetchAttendance(r.cache, att, Tail(ws), year, month, t)
         IN  [lists |-> <<r.ret>> \o rest.lists, cache |-> rest.cache]

\* the entry with the net salary floored at zero
PayrollEntryFloored(worker, attendance_list, advances_list) ==
    LET daily_wage == Float(worker.daily_wage)
        present_days == CountStatus(attendance_list, "Present")
        half_days == CountStatus(attendance_list, "Half Day")
        gross_salary == present_days * daily_wage + Half(half_days * daily_wage)
        worker_advances == SumFloatAmounts(advances_list)
    IN  [worker_id |-> worker.id, worker_name |-> worker.name, daily_wage |-> daily_wage,
         present_days |-> present_days, half_days |-> half_days,
         total_days |-> Float(present_days) + Half(Float(half_days)),
         gross_salary |-> gross_salary, advances |-> worker_advances,
         net_salary |-> IF gross_salary < worker_advances THEN 0
                        ELSE gross_salary - worker_advances]

\* get_payroll_report, lines 1194-1221: the entry of one worker
PayrollEntry(worker, attendance_list, advances_list) ==
    LET daily_wage == Float(worker.daily_wage)
        present_days == CountStatus(attendance_list, "Present")
        half_days == CountStatus(attendance_list, "Half Day")
        gross_salary == present_days * daily_wage + Half(half_days * daily_wage)
        worker_advances == SumFloatAmounts(advances_list)
    IN  [worker_id |-> worker.id, worker_name |-> worker.name, daily_wage |-> daily_wage,
         present_days |-> present_days, half_days |-> half_days,
         total_days |-> Float(present_days) + Half(Float(half_days)),
         gross_salary |-> gross_salary, advances |-> worker_advances,
         net_salary |-> gross_salary - worker_advances]

\* the loop of lines 1192-1221 over the workers and the lists fetched for them
PayrollEntries(ws, lists, adv, year, month) ==
    [i \in 1..Len(ws) |->
        PayrollEntry(ws[i], lists[i], GetAdvances(adv, ws[i].id, year, month))]

\* total_payroll += ..., total_advances += ..., total_net += ...
RECURSIVE SumField(_, _)
SumField(entries, field) ==
    IF entries = <<>> THEN 0 ELSE Head(entries)[field] + SumField(Tail(entries), field)

\* get_payroll_report as a whole at time t: the JSON it returns, the cache it leaves
PayrollReportResult(c, ws, att, adv, year, month, t) ==
    LET list == GetWorkers(ws)
        f == FetchAttendance(c, att, list, year, month, t)
        entries == PayrollEntries(list, f.lists, adv, year, month)
    IN  [ret |-> [workers |-> entries,
                  summary |-> [total_workers |-> Len(list),
                               total_payroll |-> SumField(entries, "gross_salary"),
                               total_advances |-> SumField(entries, "advances"),
                               total_net |-> SumField(entries, "net_salary")]],
         cache |-> f.cache]

\* GET /api/reports/payroll
PayrollReport(p, year, month) ==
    LET r == PayrollReportResult(cache, workers, attendance, advances, year, month, now)
    IN  /\ pc[p] = "idle"
        /\ cache' = r.cache
        /\ last' = Response("payroll_report", [year |-> year, month |-> month], 200, NoExc,
                            r.ret)
        /\ UNCHANGED <<authVars, plumbVars, dbVars, now, pc, req, deskVars>>

\* the worker's fields read through worker.get() on None
NoneHasNoGet == Exc("AttributeError", "'NoneType' object has no attribute 'get'")

\* get_summary, lines 1058-1085, at time t: the exception that leaves it, the
\* JSON it returns, and the cache it leaves
SummaryResult(c, ws, att, adv, worker_id, year, month, t) ==
    LET worker == GetWorker(ws, worker_id)
        f == GetAttendanceResult(c, att, worker_id, year, month, t, <<"none">>)
        attendance_list == f.ret
        advances_list == GetAdvances(adv, worker_id, year, month)
        present_days == CountStatus(attendance_list, "Present")
        absent_days == CountStatus(attendance_list, "Absent")
        daily_wage_float == Float(worker.daily_wage)
        total_earnings == present_days * daily_wage_float
        total_advances == SumFloatAmounts(advances_list)
    IN  IF worker = None
        THEN [exc |-> NoneHasNoGet, ret |-> NoRet, cache |-> f.cache]
        ELSE [exc |-> NoExc, cache |-> f.cache,
              ret |-> [present_days |-> present_days, absent_days |-> absent_days,
                       total_working_days |-> Len(attendance_list),
                       total_earnings |-> total_earnings,
                       total_advances |-> total_advances,
                       net_salary |-> total_earnings - total_advances]]

\* GET /api/summary/<id>; the handler for Exception answers 500
Summary(p, worker_id, year, month) ==
    LET r == SummaryResult(cache, workers, attendance, advances, worker_id, year, month, now)
    IN  /\ pc[p] = "idle"
        /\ cache' = r.cache
        /\ last' = Response("summary", [worker_id |-> worker_id, year |-> year, month |-> month],
                            IF r.exc = NoExc THEN 200 ELSE 500, r.exc, r.ret)
        /\ UNCHANGED <<authVars, plumbVars, dbVars, now, pc, req, deskVars>>

\* round() of the quotient n / d of whole numbers n >= 0 and d > 0: to the
\* nearest whole number, a tie to the even one
RoundHalfEven(n, d) ==
    LET q == n \div d
        r == n % d
    IN  IF 2 * r < d THEN q
        ELSE IF 2 * r > d THEN q + 1
        ELSE IF q % 2 = 0 THEN q ELSE q + 1

\* Database.get_holidays(year, month): the dates of the rows of the month
HolidayDates(hs, year, month) ==
    {h.date : h \in {g \in hs : Year(g.date) = year /\ Month(g.date) = month}}

\* a['status'] of the record of date in the attendance list, "" when it has none
StatusOn(attendance_list, date) ==
    IF \E i \in 1..Len(attendance_list) : attendance_list[i].date = date
    THEN attendance_list[CHOOSE i \in 1..Len(attendance_list) :
                             /\ attendance_list[i].date = date
                             /\ \A j \in (i + 1)..Len(attendance_list) :
                                    attendance_list[j].date # date].status
    ELSE ""

\* the loop with the recorded status looked up before the holiday set
ClassifyDayRecordFirst(holiday_dates, attendance_list, date) ==
    IF StatusOn(attendance_list, date) = "Present" THEN "present"
    ELSE IF StatusOn(attendance_list, date) = "Half Day" THEN "half_day"
    ELSE IF date \in holiday_dates THEN "holiday"
    ELSE "absent"

\* get_attendance_report, lines 1255-1273: what the loop over the days counts
\* the day of date as
ClassifyDay(holiday_dates, attendance_list, date) ==
    IF date \in holiday_dates THEN "holiday"
    ELSE IF StatusOn(attendance_list, date) = "Present" THEN "present"
    ELSE IF StatusOn(attendance_list, date) = "Half Day" THEN "half_day"
    ELSE "absent"

\* x cut to one decimal instead of rounded
Round1Down(n, d) == 10 * ((10 * n) \div d)

\* round(x, 1) of the float x = n / d
Round1(n, d) == 10 * RoundHalfEven(10 * n, d)

\* get_attendance_report, lines 1251-1285: the entry of one worker
AttendanceEntry(worker, attendance_list, holiday_dates, year, month) ==
    LET days_in_month == DaysInMonth(year, month)
        count(class) ==
            Cardinality({day \in 1..days_in_month :
                ClassifyDay(holiday_dates, attendance_list, <<year, month, day>>) = class})
        present_count == count("present")
        half_day_count == count("half_day")
        holiday_count == count("holiday")
        working_days == days_in_month - holiday_count
    IN  [worker_id |-> worker.id, worker_name |-> worker.name,
         present_days |-> present_count, half_days |-> half_day_count,
         absent_days |-> count("absent"), holidays |-> holiday_count,
         total_working_days |-> working_days,
         attendance_percentage |->
             IF working_days > 0
             THEN Round1((Float(present_count) + Half(Float(half_day_count))) * 100,
                         Float(working_days))
             ELSE 0]

\* get_attendance_report as a whole at time t
AttendanceReportResult(c, ws, att, hs, year, month, t) ==
    LET list == GetWorkers(ws)
        holiday_dates == HolidayDates(hs, year, month)
        f == FetchAttendance(c, att, list, year, month, t)
    IN  [ret |-> [workers |-> [i \in 1..Len(list) |->
                                  AttendanceEntry(list[i], f.lists[i], holiday_dates, year,
                                                  month)],
                  summary |-> [total_days |-> DaysInMonth(year, month),
                               working_days |-> DaysInMonth(year, month)
                                                - Cardinality(holiday_dates),
                               holidays |-> Cardinality(holiday_dates)]],
         cache |-> f.cache]

\* GET /api/reports/attendance
AttendanceReport(p, year, month) ==
    LET r == AttendanceReportResult(cache, workers, attendance, holidays, year, month, now)
    IN  /\ pc[p] = "idle"
        /\ cache' = r.cache
        /\ last' = Response("attendance_report", [year |-> year, month |-> month], 200, NoExc,
                            r.ret)
        /\ UNCHANGED <<authVars, plumbVars, dbVars, now, pc, req, deskVars>>

\* date.today() when the clock shows t: the clock starts at midnight of the
\* first day of ClockYear, ClockMonth and stays within that month
SecondsPerDay == 86400
ClockYear == 2025
ClockMonth == 2
Today(t) == <<ClockYear, ClockMonth, 1 + (t \div SecondsPerDay)>>

\* get_stats, lines 845-880: what the records of one worker add to the counts
StatsOfWorker(worker, attendance_list, today) ==
    [present_today |->
         IF \E i \in 1..Len(attendance_list) :
                /\ attendance_list[i].date = today
                /\ attendance_list[i].status \in {"Present", "Half Day"}
         THEN 1 ELSE 0,
     total_payroll |->
         CountStatus(attendance_list, "Present") * Float(worker.daily_wage)
         + CountStatus(attendance_list, "Half Day") * Half(Float(worker.daily_wage)),
     total_attendance_days |->
         CountStatus(attendance_list, "Present") * Float(1)
         + CountStatus(attendance_list, "Half Day") * Half(Float(1))]

\* the average without "avg_attendance = min(avg_attendance, 100)"
AvgAttendanceUnclamped(total_attendance_days, total_workers, day) ==
    IF total_workers > 0 /\ day > 0
    THEN RoundHalfEven(total_attendance_days, total_workers * day)
    ELSE 0

\* lines 887-891: avg_attendance from the float total_attendance_days
AvgAttendance(total_attendance_days, total_workers, day) ==
    IF total_workers > 0 /\ day > 0
    THEN LET rounded == RoundHalfEven(total_attendance_days, total_workers * day)
         IN  IF rounded < 100 THEN rounded ELSE 100
    ELSE 0

\* get_stats as a whole at time t
StatsResult(c, ws, att, t) ==
    LET current_date == Today(t)
        list == GetWorkers(ws)
        f == FetchAttendance(c, att, list, Year(current_date), Month(current_date), t)
        per == [i \in 1..Len(list) |-> StatsOfWorker(list[i], f.lists[i], current_date)]
        total_workers == Len(list)
        total_attendance_days == SumField(per, "total_attendance_days")
        avg_attendance == AvgAttendance(total_attendance_days, total_workers,
                                        Day(current_date))
    IN  [ret |-> [total_workers |-> total_workers,
                  present_today |-> SumField(per, "present_today"),
                  total_payroll |-> SumField(per, "total_payroll"),
                  avg_attendance |-> Float(avg_attendance)],
         cache |-> f.cache]

\* GET /api/stats
Stats(p) ==
    LET r == StatsResult(cache, workers, attendance, now)
    IN  /\ pc[p] = "idle"
        /\ cache' = r.cache
        /\ last' = Response("stats", NoArgs, 200, NoExc, r.ret)
        /\ UNCHANGED <<authVars, plumbVars, dbVars, now, pc, req, deskVars>>

(***************************************************************************)
(* Sessions: login_required, login and logout.  Flask keeps the session in *)
(* a signed cookie; session[p] is the session the cookie of client p       *)
(* carries, which the client presents with every request and the response  *)
(* replaces.  A client's ip is the client.  The lifetime of the cookie     *)
(* (PERMANENT_SESSION_LIFETIME) is left out: it only ends sessions.        *)
(***************************************************************************)
EmptySession == [logged_in |-> FALSE, username |-> <<>>, permanent |-> FALSE]
LoggedInSession(username) == [logged_in |-> TRUE, username |-> username, permanent |-> TRUE]

\* 'logged_in' in session
HasLoggedIn(s) == s.logged_in

\* the credentials of the deployment: os.environ.get('ADMIN_USERNAME', 'admin')
\* and the password whose hash is ADMIN_PASSWORD_HASH
AdminUsername == <<"u">>
AdminPassword == <<"k">>
AdminSession == LoggedInSession(AdminUsername)

\* werkzeug's generate_password_hash and check_password_hash
NoHash == <<>>
PasswordHash(password) == <<"hash", password>>
CheckPasswordHash(pwhash, password) == pwhash = PasswordHash(password)

Configured == [ADMIN_PASSWORD_HASH |-> PasswordHash(AdminPassword)]
NotConfigured == [ADMIN_PASSWORD_HASH |-> NoHash]

\* login_attempts = {}; a value of the dictionary is a set of datetime.now()
\* stamps, no two of them equal, held as the list of the stamps in seconds
NoAttempts == [ip \in {} |-> <<>>]

MaxLoginAttempts == 5
LockoutSeconds == 900

\* max(attempts)
LastAttempt(attempts) ==
    CHOOSE t \in {attempts[i] : i \in 1..Len(attempts)} :
        \A i \in 1..Len(attempts) : attempts[i] <= t

\* check_login_attempts(ip) at time t: what it returns, the dictionary it leaves
CheckLoginAttempts(la, ip, t) ==
    IF ip \in DOMAIN la /\ Len(la[ip]) >= MaxLoginAttempts
    THEN IF t - LastAttempt(la[ip]) < LockoutSeconds
         THEN [allowed |-> FALSE, login_attempts |-> la]
         ELSE [allowed |-> TRUE, login_attempts |-> [la EXCEPT ![ip] = <<>>]]
    ELSE [allowed |-> TRUE, login_attempts |-> la]

\* del login_attempts[ip]
DelAttempts(la, ip) == [i \in DOMAIN la \ {ip} |-> la[i]]

\* login_attempts[ip].add(datetime.now()), the key made first when it is missing
AddAttempt(la, ip, t) ==
    [i \in DOMAIN la \cup {ip} |->
        IF i = ip THEN (IF ip \in DOMAIN la THEN la[ip] ELSE <<>>) \o <<t>> ELSE la[i]]

\* the test of line 695 on the fields as submitted, not stripped
CredentialsAcceptedUnstripped(env, username, password) ==
    username = AdminUsername /\ CheckPasswordHash(env.ADMIN_PASSWORD_HASH, password)

\* line 695: username and password are the stripped form fields
CredentialsAccepted(env, username, password) ==
    /\ Strip(username) = AdminUsername
    /\ CheckPasswordHash(env.ADMIN_PASSWORD_HASH, Strip(password))

\* POST /login for the session s of the client at ip, at time t: the status
\* answered, the page answered or redirected to, the session and the
\* dictionary left
LoginResult(env, la, s, ip, username, password, t) ==
    LET c == CheckLoginAttempts(la, ip, t)
    IN  IF ~c.allowed
        THEN [status |-> 429, ret |-> "login.html", session |-> s, login_attempts |-> la]
        ELSE IF Strip(username) = <<>> \/ Strip(password) = <<>>
        THEN [status |-> 200, ret |-> "login.html", session |-> s,
              login_attempts |-> c.login_attempts]
        ELSE IF env.ADMIN_PASSWORD_HASH = NoHash
        THEN [status |-> 500, ret |-> "login.html", session |-> s,
              login_attempts |-> c.login_attempts]
        ELSE IF CredentialsAccepted(env, username, password)
        THEN [status |-> 302, ret |-> "dashboard",
              session |-> LoggedInSession(Strip(username)),
              login_attempts |-> DelAttempts(c.login_attempts, ip)]
        ELSE [status |-> 200, ret |-> "login.html", session |-> s,
              login_attempts |-> AddAttempt(c.login_attempts, ip, t)]

Login(p, username, password) ==
    LET r == LoginResult(environ, login_attempts, session[p], p, username, password, now)
    IN  /\ pc[p] = "idle"
        /\ session' = [session EXCEPT ![p] = r.session]
        /\ login_attempts' = r.login_attempts
        /\ last' = Response("login", [username |-> username, password |-> password],
                            r.status, NoExc, r.ret)
        /\ UNCHANGED <<dbVars, cache, now, pc, req, deskVars, environ, plumbVars>>

\* GET /logout: session.clear() and the redirect to the login page
Logout(p) ==
    /\ pc[p] = "idle"
    /\ session' = [session EXCEPT ![p] = EmptySession]
    /\ last' = Response("logout", NoArgs, 302, NoExc, "login")
    /\ UNCHANGED <<dbVars, cache, now, pc, req, deskVars, login_attempts, environ, plumbVars>>

\* the decorator without its test
LoginRequiredOpen(p, route, f) == f

\* login_required: decorated_function for the request of client p to route,
\* whose handler is the action f
LoginRequired(p, route, f) ==
    IF ~HasLoggedIn(session[p])
    THEN /\ pc[p] = "idle"
         /\ last' = Response(route, NoArgs, 302, NoExc, "login")
         /\ UNCHANGED <<dbVars, cache, now, pc, req, deskVars, authVars, plumbVars>>
    ELSE f

\* POST /api/add_worker behind the decorator
AddWorkerRoute(p, name, wage) ==
    LoginRequired(p, "add_worker", AddWorkerCall(p, name, wage))

\* time passes at the login page, half a lockout at a time
LoginTick ==
    /\ now < LockoutSeconds
    /\ now' = now + (LockoutSeconds \div 2)
    /\ UNCHANGED <<dbVars, cache, pc, req, last, deskVars, authVars, plumbVars>>

(***************************************************************************)
(* The desktop variant (src/blazecore_payroll_app.py): class Database over *)
(* SQLite, used by one GUI thread.  workers.name is COLLATE NOCASE, so     *)
(* "name = ?" compares without regard to case; nothing deletes a row.      *)
(***************************************************************************)
\* Database.add_worker (lines 123-143): the exception it raises, the table it leaves
DeskAddWorkerResult(ws, id, name, daily_wage) ==
    IF name = <<>> \/ Strip(name) = <<>>
    THEN [exc |-> ValueError("Worker name cannot be empty"), workers |-> ws]
    ELSE IF daily_wage <= 0
    THEN [exc |-> ValueError("Daily wage must be a positive number"), workers |-> ws]
    ELSE IF \E w \in ws : Lower(w.name) = Lower(Strip(name)) /\ w.active
    THEN [exc |-> ValueError("Worker already exists"), workers |-> ws]
    ELSE [exc |-> NoExc,
          workers |-> ws \cup {[id |-> id, name |-> Strip(name),
                                daily_wage |-> daily_wage, active |-> TRUE]}]

DeskAddWorker(name, daily_wage) ==
    LET r == DeskAddWorkerResult(deskWorkers, deskNextId, name, daily_wage)
    IN  /\ deskNextId <= MaxWorkers
        /\ deskWorkers' = r.workers
        /\ deskNextId' = IF r.exc = NoExc THEN deskNextId + 1 ELSE deskNextId
        /\ last' = Response("desk_add_worker", [name |-> name, wage |-> daily_wage],
                            0, r.exc, IF r.exc = NoExc THEN deskNextId ELSE NoRet)
        /\ UNCHANGED <<authVars, plumbVars, dbVars, cache, now, pc, req, deskAdvances,
                       deskAttendance, popup>>

\* lines 208-211: the checks made before the transaction
DeskAdvanceValidation(amount) ==
    IF amount <= 0 THEN ValueError("Advance amount must be a positive number")
    ELSE IF amount > MaxAdvanceAmount THEN ValueError("Advance amount seems too high")
    ELSE NoExc

\* Database.add_advance (lines 206-243): the exception it raises, the table it leaves
DeskAddAdvanceResult(ws, adv, worker_id, amount, date_str) ==
    IF DeskAdvanceValidation(amount) # NoExc
    THEN [exc |-> DeskAdvanceValidation(amount), advances |-> adv]
    ELSE IF ~(\E w \in ws : w.id = worker_id /\ w.active)
    THEN [exc |-> ValueError("Worker not found or inactive"), advances |-> adv]
    ELSE LET w == CHOOSE w \in ws : w.id = worker_id
             max_possible_wage ==
                 w.daily_wage * DaysInMonth(Year(date_str), Month(date_str))
         IN  IF MonthTotal(adv, worker_id, date_str) + amount > max_possible_wage
             THEN [exc |-> ValueError("Total advances would exceed maximum monthly wage"),
                   advances |-> adv]
             ELSE [exc |-> NoExc,
                   advances |-> adv \cup {[id |-> Cardinality(adv) + 1, worker_id |-> worker_id,
                                           amount |-> amount, date |-> date_str]}]

DeskAddAdvance(worker_id, amount, date_str) ==
    LET r == DeskAddAdvanceResult(deskWorkers, deskAdvances, worker_id, amount, date_str)
    IN  /\ Cardinality(deskAdvances) < MaxDeskAdvances
        /\ deskAdvances' = r.advances
        /\ last' = Response("desk_add_advance",
                            [worker_id |-> worker_id, amount |-> amount, date |-> date_str],
                            0, r.exc, NoRet)
        /\ UNCHANGED <<authVars, plumbVars, dbVars, cache, now, pc, req, deskWorkers, deskNextId,
                       deskAttendance, popup>>

(***************************************************************************)
(* The state after construction: create_tables has run on an empty store,  *)
(* the cache is empty, no request is in flight.                            *)
(***************************************************************************)
EmptyCache == [_cache |-> Restrict(<<>>, {}), _timeouts |-> Restrict(<<>>, {}),
               _last_accessed |-> Restrict(<<>>, {})]

Init ==
    /\ workers = {}
    /\ nextWorkerId = 1
    /\ attendance = {}
    /\ advances = {}
    /\ nextAdvanceId = 1
    /\ holidays = {}
    /\ nextHolidayId = 1
    /\ cache = EmptyCache
    /\ now = 0
    /\ pc = [p \in Procs |-> "idle"]
    /\ req = [p \in Procs |-> Idle]
    /\ last = Response("none", NoArgs, 0, NoExc, NoRet)
    /\ deskWorkers = {}
    /\ deskNextId = 1
    /\ deskAdvances = {}
    /\ deskAttendance = {}
    /\ popup = NoPopup
    /\ session = [p \in Procs |-> AdminSession]
    /\ login_attempts = NoAttempts
    /\ environ = Configured
    /\ pool = OpenPool
    /\ lock = Free

(***************************************************************************)
(* SpecWorkers: the requests on table workers, with names that are blank,  *)
(* need stripping, or differ in case only, and wages on both sides of the  *)
(* limits.                                                                 *)
(***************************************************************************)
NameInputs == {<<>>, <<" ">>, <<"a">>, <<"A">>, <<"a", " ">>, <<"b">>}
WageInputs == {0, 600, 5001}
WorkerIdInputs == 0..MaxWorkers

NextWorkers ==
    \/ \E p \in Procs, name \in NameInputs, wage \in WageInputs : AddWorkerCall(p, name, wage)
    \/ \E p \in Procs : AddWorkerInsert(p)
    \/ \E p \in Procs, id \in WorkerIdInputs, name \in NameInputs, wage \in WageInputs :
           UpdateWorker(p, id, name, wage)
    \/ \E p \in Procs, id \in WorkerIdInputs : DeleteWorker(p, id)

SpecWorkers == Init /\ [][NextWorkers]_vars

(***************************************************************************)
(* SpecAttendance: concurrent requests that mark attendance, beside the    *)
(* requests that add, update and delete the workers they name.             *)
(***************************************************************************)
PlainNames == {<<"a">>, <<"b">>}
PlainWages == {600}
DateInputs == {<<2025, 6, 1>>, <<2025, 6, 2>>}
OneDate == {<<2025, 6, 1>>}
StatusInputs == ValidStatuses \cup {"present"}

NextAttendance ==
    \/ \E p \in Procs, name \in PlainNames, wage \in PlainWages : AddWorkerCall(p, name, wage)
    \/ \E p \in Procs : AddWorkerInsert(p)
    \/ \E p \in Procs, id \in WorkerIdInputs, d \in OneDate \cup {NoDate}, st \in StatusInputs :
           MarkCall(p, id, d, st)
    \/ \E p \in Procs : MarkWrite(p)
    \/ \E p \in Procs, id \in WorkerIdInputs, name \in {<<"a">>}, wage \in PlainWages :
           UpdateWorker(p, id, name, wage)
    \/ \E p \in Procs, id \in WorkerIdInputs : DeleteWorker(p, id)

SpecAttendance == Init /\ [][NextAttendance]_vars

(***************************************************************************)
(* SpecAdvances: advances given through both routes of the web variant and *)
(* through the desktop variant, with amounts on both sides of the limits.  *)
(***************************************************************************)
AdvanceAmounts == {0, 500, 50000, 50001}
AdvanceRoutes == {"add_advance", "give_advance"}
DeskWages == {600, 2000}

NextAdvances ==
    \/ \E p \in Client, name \in PlainNames, wage \in PlainWages : AddWorkerCall(p, name, wage)
    \/ \E p \in Client : AddWorkerInsert(p)
    \/ \E p \in Client, rt \in AdvanceRoutes, id \in WorkerIdInputs, amt \in AdvanceAmounts,
          d \in OneDate \cup {NoDate} : AddAdvance(p, rt, id, amt, d)
    \/ \E name \in PlainNames, wage \in DeskWages : DeskAddWorker(name, wage)
    \/ \E id \in WorkerIdInputs, amt \in AdvanceAmounts, d \in OneDate :
           DeskAddAdvance(id, amt, d)

SpecAdvances == Init /\ [][NextAdvances]_vars

(***************************************************************************)
(* Spec: the requests of one client, one after the other, on the tables    *)
(* and the cache, while time passes.                                       *)
(***************************************************************************)
ClientNames == {<<"a">>}
ClientStatuses == {"Present", "unmarked"}
MonthInputs == {6, 7}
HolidayNames == {<<"h">>, <<>>}

Next ==
    \/ \E p \in Client, name \in ClientNames, wage \in PlainWages : AddWorkerCall(p, name, wage)
    \/ \E p \in Client : AddWorkerInsert(p)
    \/ \E p \in Client, id \in 1..MaxWorkers, d \in DateInputs, st \in ClientStatuses :
           MarkCall(p, id, d, st)
    \/ \E p \in Client : MarkWrite(p)
    \/ \E p \in Client, id \in 1..MaxWorkers, m \in MonthInputs : GetAttendance(p, id, 2025, m)
    \/ \E p \in Client, id \in 1..MaxWorkers : DeleteWorker(p, id)
    \/ \E p \in Client, d \in OneDate, name \in HolidayNames :
           AddHoliday(p, d, name, "manual", <<>>)
    \/ \E p \in Client, id \in 1..MaxHolidays : DeleteHoliday(p, id)
    \/ Tick

Spec == Init /\ [][Next]_vars

(***************************************************************************)
(* What the properties below say of names, stated without strip() and      *)
(* LOWER().                                                                *)
(***************************************************************************)
Blank(s) == \A i \in 1..Len(s) : s[i] = " "

\* t is s without its leading and trailing blanks
IsTrimOf(t, s) ==
    /\ t = <<>> \/ (t[1] # " " /\ t[Len(t)] # " ")
    /\ \E i, j \in 0..Len(s) :
         /\ i + j + Len(t) = Len(s)
         /\ \A k \in 1..Len(t) : t[k] = s[i + k]
         /\ \A k \in 1..i : s[k] = " "
         /\ \A k \in (Len(s) - j + 1)..Len(s) : s[k] = " "

SameLetter(c, d) == c = d \/ {c, d} = {"a", "A"} \/ {c, d} = {"b", "B"}

\* s and t are equal when compared without regard to case
SameNameIgnoringCase(s, t) ==
    Len(s) = Len(t) /\ \A i \in 1..Len(s) : SameLetter(s[i], t[i])

\* some row of ws, other than the row of id skip, holds the trimmed name
NameHeld(ws, name, skip) ==
    \E w \in ws : w.id # skip /\ \E i, j \in 0..Len(name) :
        /\ i + j <= Len(name)
        /\ IsTrimOf(SubSeq(name, i + 1, Len(name) - j), name)
        /\ SameNameIgnoringCase(w.name, SubSeq(name, i + 1, Len(name) - j))

\* the step completes a request op and answers it (the response is new)
Answers(op) == last' # last /\ last'.op = op

(***************************************************************************)
(* Properties of the requests on table workers, checked under SpecWorkers. *)
(***************************************************************************)
\* C3: in every reachable state, under any interleaving of add_worker and
\* update_worker requests, no two rows of table workers have names that are
\* equal when compared case-insensitively.
C3_NamesDifferIgnoringCase ==
    \A w, v \in workers : SameNameIgnoringCase(w.name, v.name) => w = v

\* C4: add_worker fails with ValueError, answered 400, whenever the name is
\* empty or blank, the wage is <= 0, or a worker existing when add_worker
\* looks the name up holds it case-insensitively, and then table workers is
\* what it was; an add_worker that goes on to its INSERT had none of these.
C4_Refused(ws, a) == Blank(a.name) \/ a.wage <= 0 \/ NameHeld(ws, a.name, 0)

C6_UpdateWorkerSucceeds ==
    [][(/\ Answers("update_worker")
        /\ WorkerExists(workers, last'.args.worker_id)
        /\ ~Blank(last'.args.name)
        /\ last'.args.wage > 0
        /\ ~NameHeld(workers, last'.args.name, last'.args.worker_id)) =>
            /\ last'.status = 200
            /\ IsTrimOf(GetWorker(workers', last'.args.worker_id).name, last'.args.name)
            /\ GetWorker(workers', last'.args.worker_id).daily_wage = last'.args.wage]_vars

(***************************************************************************)
(* Properties of marking attendance and of the requests that name a worker *)
(* id, checked under SpecAttendance.                                       *)
(***************************************************************************)
MarkedStatuses == {"Present", "Half Day", "Absent"}

RowsOf(att, worker_id, date) == {a \in att : a.worker_id = worker_id /\ a.date = date}

\* C1: under any interleaving of mark_attendance requests table attendance
\* holds at most one row per (worker_id, date); and when a mark of a (worker_id,
\* date) that already carries a status succeeds with a different status from
\* {Present, Half Day, Absent}, the one row of that pair carries the later status.
C1_OneRowLatestStatus ==
    /\ [](\A a, b \in attendance : (a.worker_id = b.worker_id /\ a.date = b.date) => a = b)
    /\ [][\A p \in Procs :
            (/\ pc[p] = "mark_write" /\ pc'[p] = "idle"
             /\ last'.status = 200
             /\ req[p].status \in MarkedStatuses
             /\ \E a \in RowsOf(attendance, req[p].worker_id, req[p].date) :
                    a.status \in MarkedStatuses \ {req[p].status}) =>
                RowsOf(attendance', req[p].worker_id, req[p].date) =
                    {AttendanceRow(req[p].worker_id, req[p].date, req[p].status)}]_vars

\* a mark has succeeded, and a second mark of the same worker and date with
\* another status is about to write
C1_Witness ==
    /\ last.op = "mark_attendance" /\ last.status = 200
    /\ last.args.status \in MarkedStatuses
    /\ AttendanceRow(last.args.worker_id, last.args.date, last.args.status) \in attendance
    /\ \E p \in Procs :
         /\ pc[p] = "mark_write"
         /\ req[p].worker_id = last.args.worker_id /\ req[p].date = last.args.date
         /\ req[p].status \in MarkedStatuses \ {last.args.status}
         /\ WorkerExists(workers, req[p].worker_id)

\* the checks mark_attendance makes on its arguments all pass
MarkFieldsValid(a) ==
    /\ a.worker_id # 0 /\ a.date # NoDate
    /\ a.status \in {"Present", "Absent", "Half Day", "unmarked"}

\* C7: update-worker and mark-attendance answer 404 when the worker id is not
\* in table workers, and mark-attendance answers 400 when a field is missing or
\* the status is not one of Present, Absent, Half Day, unmarked.
C7_AbsentWorkerIs404 ==
    [][/\ (/\ Answers("update_worker")
           /\ last'.args.worker_id # 0
           /\ ~WorkerExists(workers, last'.args.worker_id)) => last'.status = 404
       /\ (/\ Answers("mark_attendance") /\ pc' = pc
           /\ ~MarkFieldsValid(last'.args)) => last'.status = 400
       /\ (/\ Answers("mark_attendance") /\ pc' = pc
           /\ MarkFieldsValid(last'.args)
           /\ ~WorkerExists(workers, last'.args.worker_id)) => last'.status = 404]_vars

DatesOf(list) == {list[i].date : i \in 1..Len(list)}

\* C2: after mark_attendance(worker, date, "unmarked") has succeeded, the
\* get_attendance(worker, year, month) that follows for that date's month
\* returns a list with no record for that date, also when get_attendance for
\* the same worker and month was called before the unmark.
C2_UnmarkedDateNotFetched ==
    [][(/\ Answers("get_attendance")
        /\ last.op = "mark_attendance" /\ last.status = 200
        /\ last.args.status = "unmarked"
        /\ last.args.worker_id = last'.args.worker_id
        /\ Year(last.args.date) = last'.args.year
        /\ Month(last.args.date) = last'.args.month) =>
            last.args.date \notin DatesOf(last'.ret)]_vars

\* C8: a delete_worker(id) that succeeds leaves no row of that id in tables
\* workers, attendance and advances, every other row of the three tables and
\* every holiday as it was; and get_attendance and get_advances for an id that
\* is not in table workers return empty lists.
C8_DeleteRemovesAll ==
    [][/\ (Answers("delete_worker") /\ last'.status = 200) =>
            /\ workers' = {w \in workers : w.id # last'.args.worker_id}
            /\ attendance' = {a \in attendance : a.worker_id # last'.args.worker_id}
            /\ advances' = {a \in advances : a.worker_id # last'.args.worker_id}
            /\ holidays' = holidays
       /\ (Answers("get_attendance") /\ ~WorkerExists(workers, last'.args.worker_id)) =>
            /\ last'.ret = <<>>
            /\ GetAdvances(advances, last'.args.worker_id, last'.args.year,
                           last'.args.month) = <<>>]_vars

(***************************************************************************)
(* Properties of add_advance, checked under SpecAdvances.                  *)
(***************************************************************************)
\* C10: add_advance, in the web and in the desktop variant, fails with
\* ValueError and leaves table advances unchanged whenever the amount is <= 0
\* or greater than 50,000; an amount of exactly 50,000 for an existing worker
\* is not refused as too high.
C10_AmountChecked ==
    [][/\ \A rt \in AdvanceRoutes :
            /\ (Answers(rt) /\ (last'.args.amount <= 0 \/ last'.args.amount > 50000)) =>
                  last'.exc.type = "ValueError" /\ advances' = advances
            /\ (Answers(rt) /\ last'.args.amount = 50000
                            /\ WorkerExists(workers, last'.args.worker_id)) =>
                  last'.exc # ValueError("Advance amount seems too high")
       /\ (Answers("desk_add_advance")
              /\ (last'.args.amount <= 0 \/ last'.args.amount > 50000)) =>
             last'.exc.type = "ValueError" /\ deskAdvances' = deskAdvances
       /\ (Answers("desk_add_advance") /\ last'.args.amount = 50000
              /\ \E w \in deskWorkers : w.id = last'.args.worker_id) =>
             last'.exc # ValueError("Advance amount seems too high")]_vars

\* an advance of 50,001 for an existing worker has been refused as too high,
\* and the desktop table holds an advance of exactly 50,000
C10_Witness ==
    /\ last.op \in AdvanceRoutes
    /\ last.args.amount = 50001
    /\ WorkerExists(workers, last.args.worker_id)
    /\ last.exc = ValueError("Advance amount seems too high")
    /\ \E a \in deskAdvances : a.amount = 50000

(***************************************************************************)
(* SpecHolidays: the requests on table holidays, with names that are blank *)
(* and dates that are missing or taken.                                    *)
(***************************************************************************)
HolidayNameInputs == {<<"h">>, <<"g">>, <<" ">>, <<>>}
HolidayTypes == {"manual", "festival"}
HolidayDescriptions == {<<>>, <<"d">>}

NextHolidays ==
    \/ \E p \in Procs, d \in DateInputs \cup {NoDate}, name \in HolidayNameInputs,
          ty \in HolidayTypes, ds \in HolidayDescriptions : AddHoliday(p, d, name, ty, ds)
    \/ \E p \in Procs, id \in 1..MaxHolidays : DeleteHoliday(p, id)

SpecHolidays == Init /\ [][NextHolidays]_vars

ReportDay(d) == <<ClockYear, ClockMonth, d>>
LastDay == DaysInMonth(ClockYear, ClockMonth)

StoredWorkers ==
    {{}, {WorkerRow(1, <<"a">>, 600)}, {WorkerRow(1, <<"a">>, 600), WorkerRow(2, <<"b">>, 601)}}

StoredAttendance1 ==
    {{}, {AttendanceRow(1, ReportDay(1), "Present")},
     {AttendanceRow(1, ReportDay(1), "Present"), AttendanceRow(1, ReportDay(LastDay), "Half Day")},
     {AttendanceRow(1, ReportDay(1), "Half Day"), AttendanceRow(1, ReportDay(LastDay), "Absent")}}

StoredAttendance2 ==
    {{}, {AttendanceRow(2, ReportDay(1), "Half Day")},
     {AttendanceRow(2, ReportDay(1), "Present"), AttendanceRow(2, ReportDay(LastDay), "Present")}}

HolidayCounts == {0, 1, 12, LastDay}
StoredHolidays(k) ==
    {HolidayRow(d, ReportDay(LastDay + 1 - d), <<"h">>, "manual", <<>>) : d \in 1..k}

StoredAdvances ==
    {{}, {[id |-> 1, worker_id |-> 1, amount |-> 500, date |-> ReportDay(1)]},
     {[id |-> 1, worker_id |-> 1, amount |-> 500, date |-> ReportDay(1)],
      [id |-> 2, worker_id |-> 1, amount |-> 500, date |-> ReportDay(1)],
      [id |-> 3, worker_id |-> 1, amount |-> 1000, date |-> ReportDay(2)]}}

InitReports ==
    /\ workers \in StoredWorkers
    /\ nextWorkerId = Cardinality(workers) + 1
    /\ \E a1 \in StoredAttendance1, a2 \in StoredAttendance2 :
           attendance = {a \in a1 \cup a2 : WorkerExists(workers, a.worker_id)}
    /\ \E adv \in StoredAdvances : advances = {a \in adv : WorkerExists(workers, a.worker_id)}
    /\ nextAdvanceId = Cardinality(advances) + 1
    /\ \E k \in HolidayCounts : holidays = StoredHolidays(k)
    /\ nextHolidayId = Cardinality(holidays) + 1
    /\ cache = EmptyCache
    /\ now \in {0, (LastDay - 1) * SecondsPerDay}
    /\ pc = [p \in Procs |-> "idle"]
    /\ req = [p \in Procs |-> Idle]
    /\ last = Response("none", NoArgs, 0, NoExc, NoRet)
    /\ deskWorkers = {}
    /\ deskNextId = 1
    /\ deskAdvances = {}
    /\ deskAttendance = {}
    /\ popup = NoPopup
    /\ session = [p \in Procs |-> AdminSession]
    /\ login_attempts = NoAttempts
    /\ environ = Configured
    /\ pool = OpenPool
    /\ lock = Free

ReportStatusInputs == {"Present", "Half Day", "unmarked"}

NextReports ==
    \/ \E p \in Client : PayrollReport(p, ClockYear, ClockMonth)
    \/ \E p \in Client : AttendanceReport(p, ClockYear, ClockMonth)
    \/ \E p \in Client, id \in 1..MaxWorkers : Summary(p, id, ClockYear, ClockMonth)
    \/ \E p \in Client : Stats(p)
    \/ \E p \in Client, status \in ReportStatusInputs : MarkCall(p, 1, ReportDay(1), status)
    \/ \E p \in Client : MarkWrite(p)

SpecReports == InitReports /\ [][NextReports]_vars

\* the lists the handler that answers in this step fetched for the workers:
\* what get_attendance returns for each, from the cache or from the table
FetchedLists(year, month) ==
    FetchAttendance(cache, attendance, GetWorkers(workers), year, month, now).lists

\* the number of records of a fetched list with the status
Records(list, status) == Cardinality({j \in 1..Len(list) : list[j].status = status})

\* the sum of the numbers s[1], ..., s[n]
RECURSIVE SumTo(_, _)
SumTo(s, n) == IF n = 0 THEN 0 ELSE s[n] + SumTo(s, n - 1)

C12_WitnessNegativeNet ==
    /\ last.op = "payroll_report"
    /\ \E i \in 1..Len(last.ret.workers) : last.ret.workers[i].net_salary < 0

\* C13: the net salary get_summary answers for a worker and a month is the
\* net_salary the payroll report gives for the same worker and month, earnings
\* being present * wage + half * wage / 2.
C13_SummaryNetIsReportNet ==
    [][(Answers("summary") /\ last'.status = 200) =>
          LET report == PayrollReportResult(cache, workers, attendance, advances,
                                            last'.args.year, last'.args.month, now).ret
          IN  \A i \in 1..Len(report.workers) :
                  report.workers[i].worker_id = last'.args.worker_id =>
                      /\ last'.ret.total_earnings = report.workers[i].gross_salary
                      /\ last'.ret.net_salary = report.workers[i].net_salary]_vars

\* the whole number of tenths nearest to n / d, d > 0: the even one of two
\* that are equally near
NearestTenth(t, n, d) ==
    LET diff == IF 10 * n >= t * d THEN 10 * n - t * d ELSE t * d - 10 * n
    IN  2 * diff < d \/ (2 * diff = d /\ t % 2 = 0)

C14_WitnessRounded ==
    /\ last.op = "attendance_report"
    /\ \E i \in 1..Len(last.ret.workers) :
           LET e == last.ret.workers[i]
           IN  /\ e.total_working_days > 0
               /\ e.attendance_percentage * e.total_working_days
                      # Float(100 * e.present_days + 50 * e.half_days)

Nearest(r, n, d) ==
    LET diff == IF n >= r * d THEN n - r * d ELSE r * d - n
    IN  2 * diff < d \/ (2 * diff = d /\ r % 2 = 0)

UsernameInputs == {AdminUsername, <<" ">> \o AdminUsername, <<"x">>}
PasswordInputs == {AdminPassword, AdminPassword \o <<" ">>, <<>>}

InitLogin ==
    /\ workers = {}
    /\ nextWorkerId = 1
    /\ attendance = {}
    /\ advances = {}
    /\ nextAdvanceId = 1
    /\ holidays = {}
    /\ nextHolidayId = 1
    /\ cache = EmptyCache
    /\ now = 0
    /\ pc = [p \in Procs |-> "idle"]
    /\ req = [p \in Procs |-> Idle]
    /\ last = Response("none", NoArgs, 0, NoExc, NoRet)
    /\ deskWorkers = {}
    /\ deskNextId = 1
    /\ deskAdvances = {}
    /\ deskAttendance = {}
    /\ popup = NoPopup
    /\ session = [p \in Procs |-> EmptySession]
    /\ login_attempts = NoAttempts
    /\ environ \in {Configured, NotConfigured}
    /\ pool = OpenPool
    /\ lock = Free

NextLogin ==
    \/ \E p \in Procs, username \in UsernameInputs, password \in PasswordInputs :
           /\ p \in Client \/ CredentialsAcceptedUnstripped(Configured, username, password)
           /\ Login(p, username, password)
    \/ \E p \in Procs : Logout(p)
    \/ \E p \in Procs : AddWorkerRoute(p, <<"a">>, 600)
    \/ \E p \in Procs : AddWorkerInsert(p)
    \/ LoginTick

SpecLogin == InitLogin /\ [][NextLogin]_vars

C17_WitnessLockedOut ==
    /\ last.op = "login"
    /\ last.status = 429
    /\ now > 0

\* C18: for a worker in the table and a name no worker holds, update_worker
\* raises a validation error for (name, wage) exactly when add_worker would
\* for the same name and wage.
C18_UpdateRejectsAsAdd ==
    [][(/\ Answers("update_worker")
        /\ WorkerExists(workers, last'.args.worker_id)
        /\ \A w \in workers : Lower(w.name) # Lower(Strip(last'.args.name)))
          => ((last'.exc.type = "ValueError")
                 <=> (AddWorkerCheck(workers, Strip(last'.args.name), last'.args.wage)
                          # NoExc))]_vars

(***************************************************************************)
(* SpecAdvanceRace: two processes serve add_advance for one worker, with   *)
(* amounts up to the most one advance may be and dates in two months, over *)
(* a table that may hold advances of one of the months already.            *)
(***************************************************************************)
RaceDates == {<<2025, 6, 1>>, <<2025, 7, 1>>}
RaceAmounts == {500, MaxAdvanceAmount}

InitRace ==
    /\ workers = {WorkerRow(1, <<"a">>, 600)}
    /\ nextWorkerId = 2
    /\ attendance = {}
    /\ \E k \in 0..MaxStoredAdvances :
           /\ advances = {[id |-> i, worker_id |-> 1, amount |-> MaxAdvanceAmount,
                           date |-> <<2025, 6, 1>>] : i \in 1..k}
           /\ nextAdvanceId = k + 1
    /\ holidays = {}
    /\ nextHolidayId = 1
    /\ cache = EmptyCache
    /\ now = 0
    /\ pc = [p \in Procs |-> "idle"]
    /\ req = [p \in Procs |-> Idle]
    /\ last = Response("none", NoArgs, 0, NoExc, NoRet)
    /\ deskWorkers = {}
    /\ deskNextId = 1
    /\ deskAdvances = {}
    /\ deskAttendance = {}
    /\ popup = NoPopup
    /\ session = [p \in Procs |-> AdminSession]
    /\ login_attempts = NoAttempts
    /\ environ = Configured
    /\ pool = OpenPool
    /\ lock = Free

NextRace ==
    \/ \E p \in Procs, id \in 1..MaxWorkers, amount \in RaceAmounts, d \in RaceDates :
           AddAdvanceRead(p, "add_advance", id, amount, d)
    \/ \E p \in Procs : AddAdvanceWrite(p)

SpecAdvanceRace == InitRace /\ [][NextRace]_vars

CacheDates == {<<2025, 6, 1>>, <<2025, 7, 1>>}

InitCache ==
    /\ workers = {WorkerRow(1, <<"a">>, 600)}
    /\ nextWorkerId = 2
    /\ attendance = {}
    /\ advances = {}
    /\ nextAdvanceId = 1
    /\ holidays = {}
    /\ nextHolidayId = 1
    /\ cache = EmptyCache
    /\ now = 0
    /\ pc = [p \in Procs |-> "idle"]
    /\ req = [p \in Procs |-> Idle]
    /\ last = Response("none", NoArgs, 0, NoExc, NoRet)
    /\ deskWorkers = {}
    /\ deskNextId = 1
    /\ deskAdvances = {}
    /\ deskAttendance = {}
    /\ popup = NoPopup
    /\ session = [p \in Procs |-> AdminSession]
    /\ login_attempts = NoAttempts
    /\ environ = Configured
    /\ pool = OpenPool
    /\ lock = Free

NextCache ==
    \/ \E p \in Client, d \in CacheDates : GetAttendance(p, 1, Year(d), Month(d))
    \/ \E p \in Client, d \in CacheDates, status \in {"Present", "unmarked"} :
           MarkCall(p, 1, d, status)
    \/ \E p \in Client : MarkWrite(p)
    \/ CacheTick

SpecCache == InitCache /\ [][NextCache]_vars

\* the key is cached, its time has not come, and its value is not empty:
\* get_attendance returns what Cache.get returns
Fresh(key) ==
    /\ key \in DOMAIN cache._cache
    /\ now < cache._timeouts[key]
    /\ cache._cache[key] # <<>>

\* the list holds the attendance rows of the worker in the month, each once
HoldsRowsOf(list, worker_id, year, month) ==
    /\ \A a \in attendance :
           (a.worker_id = worker_id /\ Year(a.date) = year /\ Month(a.date) = month)
               => \E i \in 1..Len(list) : list[i].date = a.date /\ list[i].status = a.status
    /\ \A i \in 1..Len(list) :
           /\ \E a \in attendance : /\ a.worker_id = worker_id
                                    /\ a.date = list[i].date /\ a.status = list[i].status
           /\ Year(list[i].date) = year /\ Month(list[i].date) = month
           /\ \A j \in 1..Len(list) : list[j].date = list[i].date => j = i

C20_WitnessHit ==
    /\ last.op = "get_attendance"
    /\ LET key == AttendanceKey(last.args.worker_id, last.args.year, last.args.month)
       IN  /\ key \in DOMAIN cache._cache
           /\ cache._last_accessed[key] > cache._timeouts[key] - CacheDefaultTimeout
           /\ now < cache._timeouts[key]
           /\ ~HoldsRowsOf(last.ret, last.args.worker_id, last.args.year, last.args.month)

(***************************************************************************)
(* SpecCacheOps: calls of the methods of a Cache that is empty, holds two  *)
(* entries, is one short of full, or is full.  Its entries were set one    *)
(* second apart with a time-to-live of a day, so each has its own place in *)
(* the order of last access; the calls use the oldest of them and a new    *)
(* key.                                                                    *)
(***************************************************************************)
FillKey(i) == <<"k", i>>
FillCounts == {0, 2, CacheMaxSize - 1, CacheMaxSize}
FilledCache(n) ==
    [_cache |-> [k \in {FillKey(i) : i \in 1..n} |-> <<"v">>],
     _timeouts |-> [k \in {FillKey(i) : i \in 1..n} |-> k[2] + SecondsPerDay],
     _last_accessed |-> [k \in {FillKey(i) : i \in 1..n} |-> k[2]]]

OpKeys == {FillKey(1), <<"a">>}

InitCacheOps ==
    /\ workers = {}
    /\ nextWorkerId = 1
    /\ attendance = {}
    /\ advances = {}
    /\ nextAdvanceId = 1
    /\ holidays = {}
    /\ nextHolidayId = 1
    /\ \E n \in FillCounts : cache = FilledCache(n)
    /\ now = CacheMaxSize
    /\ pc = [p \in Procs |-> "idle"]
    /\ req = [p \in Procs |-> Idle]
    /\ last = Response("none", NoArgs, 0, NoExc, NoRet)
    /\ deskWorkers = {}
    /\ deskNextId = 1
    /\ deskAdvances = {}
    /\ deskAttendance = {}
    /\ popup = NoPopup
    /\ session = [p \in Procs |-> AdminSession]
    /\ login_attempts = NoAttempts
    /\ environ = Configured
    /\ pool = OpenPool
    /\ lock = Free

\* cache.set(key, value) with the default timeout_seconds
OpSet(key) ==
    /\ \E lru \in Victims(cache, now) :
           cache' = CacheSet(cache, key, <<"w">>, CacheDefaultTimeout, now, lru)
    /\ UNCHANGED <<authVars, plumbVars, dbVars, now, pc, req, last, deskVars>>

\* cache.get(key)
OpGet(key) ==
    /\ cache' = CacheGet(cache, key, now).cache
    /\ UNCHANGED <<authVars, plumbVars, dbVars, now, pc, req, last, deskVars>>

\* cache.delete(key)
OpDelete(key) ==
    /\ cache' = CacheDelete(cache, key)
    /\ UNCHANGED <<authVars, plumbVars, dbVars, now, pc, req, last, deskVars>>

\* cache.cleanup()
OpCleanup ==
    /\ cache' = CacheCleanup(cache, now)
    /\ UNCHANGED <<authVars, plumbVars, dbVars, now, pc, req, last, deskVars>>

\* Cache.clear (lines 582-589)
CacheClear(c) == EmptyCache

OpClear ==
    /\ cache' = CacheClear(cache)
    /\ UNCHANGED <<authVars, plumbVars, dbVars, now, pc, req, last, deskVars>>

\* time passes
OpTick ==
    /\ now < CacheMaxSize + MaxTicks * TickSeconds
    /\ now' = now + TickSeconds
    /\ UNCHANGED <<authVars, plumbVars, dbVars, cache, pc, req, last, deskVars>>

NextCacheOps ==
    \/ \E key \in OpKeys : OpSet(key)
    \/ \E key \in OpKeys : OpGet(key)
    \/ \E key \in OpKeys : OpDelete(key)
    \/ OpCleanup
    \/ OpClear
    \/ OpTick

SpecCacheOps == InitCacheOps /\ [][NextCacheOps]_vars

\* the entries of cache whose time has not passed at the clock's time: what
\* cleanup leaves
Unexpired == {k \in DOMAIN cache._cache : ~(now > cache._timeouts[k])}

LockKeys == {<<"a">>, <<"b">>}
NoKey == <<>>

Frame(method, key) == [method |-> method, key |-> key, at |-> "start"]

\* the calls a thread makes on the cache
LockCalls ==
    {Frame(m, k) : m \in {"get", "set", "delete"}, k \in LockKeys} \cup {Frame("cleanup", NoKey)}

Top(p) == req[p].stack[Len(req[p].stack)]

\* the call the body of frame f makes next on cache c at time t, None when
\* the body runs to its end: get and set call cleanup first (lines 538, 552),
\* set calls delete on a full cache (lines 556-559), cleanup calls delete for
\* an expired key (lines 578-580)
NestedCall(f, c, t) ==
    LET expired == {k \in DOMAIN c._timeouts : t > c._timeouts[k]}
    IN  CASE f.method \in {"get", "set"} /\ f.at = "start" -> Frame("cleanup", NoKey)
          [] f.method = "set" /\ f.at = "cleaned" /\ Cardinality(DOMAIN c._cache) >= CacheMaxSize
                -> Frame("delete", CHOOSE k \in LruKeys(c) : TRUE)
          [] f.method = "cleanup" /\ expired # {} -> Frame("delete", CHOOSE k \in expired : TRUE)
          [] OTHER -> None

\* where the body of frame f stands once the call it made has returned
AfterCall(f) ==
    CASE f.method = "get" -> [f EXCEPT !.at = "cleaned"]
      [] f.method = "set" -> [f EXCEPT !.at = IF f.at = "start" THEN "cleaned" ELSE "evicted"]
      [] OTHER -> f

\* what the statements of the body of f, beside the calls, do to the cache:
\* lines 541-544 of get, 561-563 of set, 567-572 of delete
BodyEffect(f, c, t) ==
    CASE f.method = "get" ->
             IF f.key \in DOMAIN c._cache /\ t < c._timeouts[f.key]
             THEN [c EXCEPT !._last_accessed = Put(c._last_accessed, f.key, t)]
             ELSE c
      [] f.method = "set" ->
             [_cache |-> Put(c._cache, f.key, <<"w">>),
              _timeouts |-> Put(c._timeouts, f.key, t + CacheDefaultTimeout),
              _last_accessed |-> Put(c._last_accessed, f.key, t)]
      [] f.method = "delete" -> CacheDelete(c, f.key)
      [] OTHER -> c

\* a thread calls a method of the cache
LockCall(p, f) ==
    /\ pc[p] = "idle"
    /\ pc' = [pc EXCEPT ![p] = "acquire"]
    /\ req' = [req EXCEPT ![p] = [op |-> "cache", stack |-> <<f>>]]
    /\ UNCHANGED <<authVars, pool, lock, dbVars, cache, now, last, deskVars>>

\* "with self._lock:" of the top frame: the thread gets the lock once it is free
LockAcquire(p) ==
    /\ pc[p] = "acquire"
    /\ lock = Free
    /\ lock' = p
    /\ pc' = [pc EXCEPT ![p] = "body"]
    /\ UNCHANGED <<authVars, pool, dbVars, cache, now, req, last, deskVars>>

\* the body of the top frame, up to the next call it makes or to its end, where
\* leaving the with block releases the lock (release of an unlocked lock raises
\* RuntimeError)
LockBody(p) ==
    LET f == Top(p)
        call == NestedCall(f, cache, now)
        depth == Len(req[p].stack)
    IN  /\ pc[p] = "body"
        /\ IF call # None
           THEN /\ req' = [req EXCEPT ![p].stack = Append(@, call)]
                /\ pc' = [pc EXCEPT ![p] = "acquire"]
                /\ UNCHANGED <<cache, lock, last>>
           ELSE IF lock # p
           THEN /\ req' = [req EXCEPT ![p] = Idle]
                /\ pc' = [pc EXCEPT ![p] = "idle"]
                /\ last' = Response("cache_" \o req[p].stack[1].method,
                                    [key |-> req[p].stack[1].key], 500,
                                    Exc("RuntimeError", "release unlocked lock"), NoRet)
                /\ UNCHANGED <<cache, lock>>
           ELSE /\ cache' = BodyEffect(f, cache, now)
                /\ lock' = Free
                /\ IF depth = 1
                   THEN /\ req' = [req EXCEPT ![p] = Idle]
                        /\ pc' = [pc EXCEPT ![p] = "idle"]
                        /\ last' = Response("cache_" \o f.method, [key |-> f.key], 200,
                                            NoExc, NoRet)
                   ELSE /\ req' = [req EXCEPT ![p].stack =
                                       [i \in 1..(depth - 1) |->
                                           IF i = depth - 1 THEN AfterCall(@[i]) ELSE @[i]]]
                        /\ UNCHANGED <<pc, last>>
        /\ UNCHANGED <<authVars, pool, dbVars, now, deskVars>>

NextLock ==
    \E p \in Procs :
        \/ \E f \in LockCalls : LockCall(p, f)
        \/ LockAcquire(p)
        \/ LockBody(p)

SpecLock == Init /\ [][NextLock]_vars

\* C22: no call of get, set, delete or cleanup waits for the lock for ever.  A
\* thread that is about to acquire the lock while it holds the lock itself
\* waits for ever, and so does every other thread that comes for the lock; the
\* statement is that no thread is ever there.
C22_NoCallWaitsOnItself ==
    \A p \in Procs : ~(pc[p] = "acquire" /\ lock = p)

(***************************************************************************)
(* The connection pool under the Database.  db._pool is a psycopg2         *)
(* SimpleConnectionPool: closed is its flag of that name, idle the number  *)
(* of connections in its list _pool, used the number of entries of its     *)
(* dictionary _used.  A request is a handler that calls methods of the     *)
(* Database one after the other; each method is get_connection, its        *)
(* statements, and conn.close() in its finally clause.  What the           *)
(* statements do to the tables is the matter of the sections above.        *)
(***************************************************************************)
Retries == 3

PoolClosed == Exc("PoolError", "connection pool is closed")
PoolExhausted == Exc("PoolError", "connection pool exhausted")
ConnectionRefused == Exc("OperationalError", "connection refused")
ConnectTimeout == Exc("OperationalError", "timeout expired")

\* what the server answers to a new connection: NoExc when it accepts it
ServerAnswers == {NoExc, ConnectionRefused, ConnectTimeout}

\* self._pool.getconn() and conn.set_session (lines 109-110): the pool it leaves
\* and the exception raised; answer is what the server says to a new connection
GetConn(pl, answer) ==
    CASE pl.closed -> [pool |-> pl, exc |-> PoolClosed]
      [] ~pl.closed /\ pl.idle > 0 ->
             [pool |-> [pl EXCEPT !.idle = @ - 1, !.used = @ + 1], exc |-> NoExc]
      [] ~pl.closed /\ pl.idle = 0 /\ pl.used = MaxConn -> [pool |-> pl, exc |-> PoolExhausted]
      [] OTHER -> IF answer = NoExc
                  THEN [pool |-> [pl EXCEPT !.used = @ + 1], exc |-> NoExc]
                  ELSE [pool |-> pl, exc |-> answer]

\* "if attempt < retries: time.sleep(1)": a wait after the last attempt as well
ShouldSleepAlways(attempt) == attempt < Retries

\* "if attempt < retries - 1: time.sleep(1)" (lines 115-116)
ShouldSleep(attempt) == attempt < Retries - 1

\* conn.close() (the finally clause of every method): the connection is closed;
\* the pool is not told, and keeps it in _used
ConnClose(pl) == pl

\* db._pool.closeall() (line 518); on a closed pool it raises and changes nothing
CloseAll(pl) == [pl EXCEPT !.closed = TRUE]

InHandler(failed) == [op |-> "request", failed |-> failed]

\* a request arrives and its handler starts
RequestBegin(p) ==
    /\ pc[p] = "idle"
    /\ pc' = [pc EXCEPT ![p] = "handler"]
    /\ req' = [req EXCEPT ![p] = InHandler(FALSE)]
    /\ UNCHANGED <<authVars, plumbVars, dbVars, cache, now, last, deskVars>>

\* the handler calls a method of the Database, which calls get_connection
DbBegin(p) ==
    /\ pc[p] = "handler"
    /\ pc' = [pc EXCEPT ![p] = "connect"]
    /\ req' = [req EXCEPT ![p] = [op |-> "request", failed |-> req[p].failed, attempt |-> 0,
                                   slept |-> 0, last_error |-> NoExc, tries |-> <<>>]]
    /\ UNCHANGED <<authVars, plumbVars, dbVars, cache, now, last, deskVars>>

\* one pass of the loop of get_connection (lines 107-116), up to the return, the
\* sleep or the end of the loop
DbAttempt(p, answer) ==
    LET r == GetConn(pool, answer)
    IN  /\ pc[p] = "connect"
        /\ pool' = r.pool
        /\ IF r.exc = NoExc
           THEN /\ req' = [req EXCEPT ![p].tries = Append(@, NoExc)]
                /\ pc' = [pc EXCEPT ![p] = "operate"]
           ELSE /\ req' = [req EXCEPT ![p].tries = Append(@, r.exc), ![p].last_error = r.exc]
                /\ pc' = [pc EXCEPT ![p] = IF ShouldSleep(req[p].attempt) THEN "sleep"
                                           ELSE "raise"]
        /\ UNCHANGED <<authVars, lock, dbVars, cache, now, last, deskVars>>

\* time.sleep(1) is over, and the loop goes to its next pass
DbSleep(p) ==
    /\ pc[p] = "sleep"
    /\ req' = [req EXCEPT ![p].slept = @ + 1, ![p].attempt = @ + 1]
    /\ pc' = [pc EXCEPT ![p] = "connect"]
    /\ UNCHANGED <<authVars, plumbVars, dbVars, cache, now, last, deskVars>>

\* the method runs its statements and its finally clause, and returns
DbEnd(p) ==
    /\ pc[p] = "operate"
    /\ pool' = ConnClose(pool)
    /\ pc' = [pc EXCEPT ![p] = "handler"]
    /\ req' = [req EXCEPT ![p] = InHandler(req[p].failed)]
    /\ UNCHANGED <<authVars, lock, dbVars, cache, now, last, deskVars>>

\* "raise last_error" (line 119): the method fails, and so does the request
DbRaise(p) ==
    /\ pc[p] = "raise"
    /\ pc' = [pc EXCEPT ![p] = "handler"]
    /\ req' = [req EXCEPT ![p] = InHandler(TRUE)]
    /\ UNCHANGED <<authVars, plumbVars, dbVars, cache, now, last, deskVars>>

\* the handler returns, and the application context of the request is torn
\* down: cleanup_db_pool (lines 514-519)
RequestEnd(p) ==
    /\ pc[p] = "handler"
    /\ pool' = CloseAll(pool)
    /\ last' = Response("request", NoArgs, IF req[p].failed THEN 500 ELSE 200,
                        IF req[p].failed THEN Exc("Exception", "") ELSE NoExc, NoRet)
    /\ pc' = [pc EXCEPT ![p] = "idle"]
    /\ req' = [req EXCEPT ![p] = Idle]
    /\ UNCHANGED <<authVars, lock, dbVars, cache, now, deskVars>>

NextPool ==
    \E p \in Client :
        \/ RequestBegin(p)
        \/ DbBegin(p)
        \/ \E answer \in ServerAnswers : DbAttempt(p, answer)
        \/ DbSleep(p)
        \/ DbEnd(p)
        \/ DbRaise(p)
        \/ RequestEnd(p)

SpecPool == Init /\ [][NextPool]_vars

InGetConnection(p) == pc[p] \in {"connect", "sleep", "operate", "raise"}
AllFailed(tries) == \A i \in 1..Len(tries) : tries[i] # NoExc

\* C23: get_connection makes at most three attempts.  It returns on the first
\* attempt that succeeds, with no attempt after it; it has slept once after
\* each failed attempt but the third; and it raises exactly when three
\* attempts have failed, with the error of the third.
C23_ThreeAttempts ==
    /\ [](\A p \in Client : InGetConnection(p) =>
             LET tries == req[p].tries
                 n == Len(tries)
             IN  /\ n <= Retries
                 /\ \A i \in 1..(n - 1) : tries[i] # NoExc
                 /\ pc[p] = "connect" => AllFailed(tries) /\ n < Retries /\ req[p].slept = n
                 /\ pc[p] = "sleep" => AllFailed(tries) /\ n < Retries /\ req[p].slept = n - 1
                 /\ pc[p] = "operate" <=> (n > 0 /\ tries[n] = NoExc)
                 /\ pc[p] = "operate" => req[p].slept = n - 1
                 /\ pc[p] = "raise" <=> (n = Retries /\ AllFailed(tries))
                 /\ pc[p] = "raise" =>
                        req[p].slept = Retries - 1 /\ req[p].last_error = tries[Retries])
    /\ [][\A p \in Client :
              /\ pc[p] = "operate" => pc'[p] = "handler" /\ req'[p].failed = req[p].failed
              /\ pc[p] = "raise" => pc'[p] = "handler" /\ req'[p].failed]_vars

\* three attempts have failed, the last for another reason than the first, and
\* get_connection raises after two sleeps
C23_Witness ==
    \E p \in Client :
        /\ pc[p] = "raise"
        /\ req[p].slept = 2
        /\ req[p].tries[1] = ConnectionRefused
        /\ req[p].last_error = ConnectTimeout

\* the second attempt has succeeded after one sleep
C23_WitnessSecondAttempt ==
    \E p \in Client :
        /\ pc[p] = "operate"
        /\ req[p].tries = <<ConnectTimeout, NoExc>>
        /\ req[p].slept = 1

\* C24: a method of the Database that had a connection of the pool has given
\* it back when it returns: the pool has one connection less in use after the
\* method's last step than before it.
C24_ConnectionGivenBack ==
    [][\A p \in Client : pc[p] = "operate" /\ pc'[p] # "operate" => pool'.used = pool.used - 1]_vars

\* C25: the pool is open after a request has completed.
C25_PoolOpenAfterRequest ==
    last.op = "request" => ~pool.closed

(***************************************************************************)
(* delete_worker statement by statement.  The connection has autocommit    *)
(* off: what the statements of lines 379-395 write is seen by no other     *)
(* transaction before COMMIT (line 397).  Any statement may fail (the      *)
(* server goes away); the except clause then fails on the closed cursor    *)
(* and conn.close() in the finally clause discards the transaction.        *)
(* SELECT ... FOR UPDATE waits while another transaction holds the row.    *)
(***************************************************************************)
DeleteStatements == <<"select", "delete_attendance", "delete_advances", "delete_worker", "commit">>

ServerGone == Exc("OperationalError", "server closed the connection unexpectedly")

\* autocommit: every DELETE is written to the tables when it is executed
WritesAtOnce(stmt) ==
    CASE stmt = "delete_attendance" -> {"attendance"}
      [] stmt = "delete_advances" -> {"advances"}
      [] stmt = "delete_worker" -> {"workers"}
      [] OTHER -> {}

\* the tables whose rows of the worker are gone for other transactions once the
\* statement has run: none before COMMIT, all three with it
Writes(stmt) == IF stmt = "commit" THEN {"attendance", "advances", "workers"} ELSE {}

StoredChildren ==
    {[attendance |-> att, advances |-> adv] :
        att \in SUBSET {AttendanceRow(1, <<2025, 6, 1>>, "Present"),
                        AttendanceRow(2, <<2025, 6, 1>>, "Absent")},
        adv \in SUBSET {[id |-> 1, worker_id |-> 1, amount |-> 500, date |-> <<2025, 6, 1>>],
                        [id |-> 2, worker_id |-> 2, amount |-> 500, date |-> <<2025, 6, 1>>]}}

InitDelete ==
    /\ workers = {WorkerRow(1, <<"a">>, 600), WorkerRow(2, <<"b">>, 600)}
    /\ nextWorkerId = 3
    /\ \E c \in StoredChildren : attendance = c.attendance /\ advances = c.advances
    /\ nextAdvanceId = 3
    /\ holidays = {}
    /\ nextHolidayId = 1
    /\ cache = EmptyCache
    /\ now = 0
    /\ pc = [p \in Procs |-> "idle"]
    /\ req = [p \in Procs |-> Idle]
    /\ last = Response("none", NoArgs, 0, NoExc, NoRet)
    /\ deskWorkers = {}
    /\ deskNextId = 1
    /\ deskAdvances = {}
    /\ deskAttendance = {}
    /\ popup = NoPopup
    /\ session = [p \in Procs |-> AdminSession]
    /\ login_attempts = NoAttempts
    /\ environ = Configured
    /\ pool = OpenPool
    /\ lock = Free

\* DELETE /api/delete_worker/<id> up to the with-block
DeleteWorkerBegin(p, worker_id) ==
    /\ pc[p] = "idle"
    /\ IF Falsy(worker_id)
       THEN /\ last' = Response("delete_worker", [worker_id |-> worker_id], 400,
                                ValueError("Worker ID is required"), NoRet)
            /\ UNCHANGED <<pc, req>>
       ELSE /\ pc' = [pc EXCEPT ![p] = "delete"]
            /\ req' = [req EXCEPT ![p] = [op |-> "delete_worker", worker_id |-> worker_id,
                                           at |-> 1]]
            /\ UNCHANGED last
    /\ UNCHANGED <<authVars, plumbVars, dbVars, cache, now, deskVars>>

\* another transaction holds the lock of the worker's row
RowLocked(p, worker_id) ==
    \E q \in Procs \ {p} : pc[q] = "delete" /\ req[q].worker_id = worker_id /\ req[q].at > 1

\* the next statement of the with-block; fails says that the server goes away
\* while it runs
DeleteWorkerStatement(p, fails) ==
    LET id == req[p].worker_id
        stmt == DeleteStatements[req[p].at]
        exc == IF fails THEN ServerGone
               ELSE IF stmt = "select" /\ ~WorkerExists(workers, id)
               THEN ValueError("Worker not found")
               ELSE NoExc
        w == IF exc = NoExc THEN Writes(stmt) ELSE {}
    IN  /\ pc[p] = "delete"
        /\ stmt = "select" => ~RowLocked(p, id)
        /\ workers' = IF "workers" \in w THEN {r \in workers : r.id # id} ELSE workers
        /\ attendance' = IF "attendance" \in w THEN {a \in attendance : a.worker_id # id}
                         ELSE attendance
        /\ advances' = IF "advances" \in w THEN {a \in advances : a.worker_id # id}
                       ELSE advances
        /\ IF exc # NoExc \/ stmt = "commit"
           THEN /\ last' = Response("delete_worker", [worker_id |-> id],
                                    DeleteWorkerStatus(exc), RollbackOnCursor(exc), stmt)
                /\ pc' = [pc EXCEPT ![p] = "idle"]
                /\ req' = [req EXCEPT ![p] = Idle]
           ELSE /\ req' = [req EXCEPT ![p].at = @ + 1]
                /\ UNCHANGED <<pc, last>>
        /\ UNCHANGED <<authVars, plumbVars, nextWorkerId, nextAdvanceId, holidays, nextHolidayId,
                       cache, now, deskVars>>

NextDelete ==
    \E p \in Procs :
        \/ \E id \in WorkerIdInputs : DeleteWorkerBegin(p, id)
        \/ \E fails \in BOOLEAN : DeleteWorkerStatement(p, fails)

SpecDelete == InitDelete /\ [][NextDelete]_vars

RowsIn(ws, att, adv, id) ==
    [workers |-> {r \in ws : r.id = id},
     attendance |-> {a \in att : a.worker_id = id},
     advances |-> {a \in adv : a.worker_id = id}]

RowsOfWorker(id) == RowsIn(workers, attendance, advances, id)

NoRows == [workers |-> {}, attendance |-> {}, advances |-> {}]

\* C26: a step of delete_worker either leaves the three tables as they are, or
\* it is the commit, which takes the worker's row and all its attendance and
\* advance rows away at once and touches no row of another worker; a call that
\* ends with an error has changed nothing.  No row of attendance or advances is
\* ever left without its worker.
C26_DeleteIsAtomic ==
    /\ [](\A a \in attendance \cup advances : WorkerExists(workers, a.worker_id))
    /\ [][\A p \in Procs : pc[p] = "delete" /\ req'[p] # req[p] =>
              \/ UNCHANGED <<workers, attendance, advances>>
              \/ /\ RowsIn(workers', attendance', advances', req[p].worker_id) = NoRows
                 /\ \A id \in WorkerIdInputs \ {req[p].worker_id} :
                        RowsIn(workers', attendance', advances', id) = RowsOfWorker(id)
                 /\ last'.op = "delete_worker" /\ last'.exc = NoExc
                 /\ last'.args.worker_id = req[p].worker_id]_vars

\* the call failed at its fourth statement, after both DELETEs on the child
\* tables, and the worker's attendance and advance rows are in the tables
C26_Witness ==
    /\ last.op = "delete_worker" /\ last.exc # NoExc /\ last.ret = "delete_worker"
    /\ RowsOfWorker(last.args.worker_id).attendance # {}
    /\ RowsOfWorker(last.args.worker_id).advances # {}
    /\ RowsOfWorker(last.args.worker_id).workers # {}

\* the call succeeded for a worker that had rows in both child tables
C26_WitnessDeleted ==
    /\ last.op = "delete_worker" /\ last.exc = NoExc
    /\ last.args.worker_id = 1
    /\ RowsOfWorker(1) = NoRows
    /\ RowsOfWorker(2).attendance # {} /\ RowsOfWorker(2).advances # {}

(***************************************************************************)
(* mark_attendance with the holiday lookup as a call of its own.  After    *)
(* conn.commit() (line 237) mark_attendance returns self.is_holiday(...)   *)
(* (line 238), which takes a second connection with get_connection and     *)
(* runs its SELECT; lookup is the exception that call raises, NoExc when   *)
(* it returns.                                                             *)
(***************************************************************************)
LookupAnswers == {NoExc, ServerGone, PoolExhausted}

\* the exception that leaves mark_attendance when its statement raised exc and
\* the lookup raised lookup: the lookup runs only after the commit
MarkOutcome(exc, lookup) == IF exc # NoExc THEN exc ELSE lookup

MarkWriteAndLookup(p, lookup) ==
    LET a == req[p]
        r == MarkStatement(workers, attendance, a.worker_id, a.date, a.status)
        e == MarkOutcome(r.exc, lookup)
    IN  /\ pc[p] = "mark_write"
        /\ attendance' = r.attendance
        /\ last' = Response("mark_attendance", a, MarkStatus(e), e,
                            IF e = NoExc THEN IsHoliday(holidays, a.date) ELSE NoRet)
        /\ pc' = [pc EXCEPT ![p] = "idle"]
        /\ req' = [req EXCEPT ![p] = Idle]
        /\ UNCHANGED <<authVars, plumbVars, workers, nextWorkerId, advances, nextAdvanceId,
                       holidays, nextHolidayId, cache, now, deskVars>>

NextMark ==
    \/ \E p \in Client, name \in ClientNames, wage \in PlainWages : AddWorkerCall(p, name, wage)
    \/ \E p \in Client : AddWorkerInsert(p)
    \/ \E p \in Client, id \in WorkerIdInputs, d \in OneDate \cup {NoDate}, st \in StatusInputs :
           MarkCall(p, id, d, st)
    \/ \E p \in Client, lookup \in LookupAnswers : MarkWriteAndLookup(p, lookup)
    \/ \E p \in Client, d \in OneDate : AddHoliday(p, d, <<"h">>, "manual", <<>>)
    \/ \E p \in Client, id \in 1..MaxWorkers : DeleteWorker(p, id)

SpecMark == Init /\ [][NextMark]_vars

\* C27: a call of mark_attendance that ends with an error leaves the attendance
\* table as it was.
C27_ErrorLeavesAttendance ==
    [][\A p \in Procs :
          (/\ req'[p] # req[p] \/ (pc[p] = "idle" /\ last' # last)
           /\ last'.op = "mark_attendance"
           /\ last'.exc # NoExc)
          => attendance' = attendance]_vars

\* C28: when the with-block of update_worker or of delete_worker raises a
\* ValueError (worker not found, name taken by another worker), the request is
\* answered 400 and the exception that reaches the handler is that ValueError.
C28_ValidationErrorReachesClient ==
    [][\A p \in Procs, id \in WorkerIdInputs :
          /\ \A name \in NameInputs, wage \in WageInputs :
                 LET b == UpdateWorkerBlock(workers, id, Strip(name), wage)
                 IN  (/\ UpdateWorker(p, id, name, wage)
                      /\ UpdateWorkerValidation(id, Strip(name), wage) = NoExc
                      /\ b.exc.type = "ValueError")
                     => last'.exc = b.exc /\ last'.status = 400
          /\ LET b == DeleteWorkerBlock(workers, attendance, advances, id)
             IN  (DeleteWorker(p, id) /\ ~Falsy(id) /\ b.exc.type = "ValueError")
                 => last'.exc = b.exc /\ last'.status = 400]_vars

\* C29: no address has more than five failed attempts recorded.  A login POST
\* from an address with five recorded, the latest less than fifteen minutes
\* old, is answered 429 and changes neither session nor record; a login POST
\* made fifteen minutes or more after the latest recorded failure leaves none
\* of the old failures in the record; a login that succeeds leaves no record.
C29_AttemptLimit ==
    /\ [](\A ip \in DOMAIN login_attempts : Len(login_attempts[ip]) <= MaxLoginAttempts)
    /\ [][\A p \in Procs, username \in UsernameInputs, password \in PasswordInputs :
              Login(p, username, password) =>
                  LET rec == IF p \in DOMAIN login_attempts THEN login_attempts[p] ELSE <<>>
                      recent == rec # <<>> /\ now - LastAttempt(rec) < LockoutSeconds
                  IN  /\ (Len(rec) >= MaxLoginAttempts /\ recent) =>
                             /\ last'.status = 429
                             /\ UNCHANGED <<session, login_attempts>>
                      /\ (rec # <<>> /\ ~recent) =>
                             \/ p \notin DOMAIN login_attempts'
                             \/ \A i \in 1..Len(login_attempts'[p]) :
                                    login_attempts'[p][i] = now
                      /\ last'.status = 302 => p \notin DOMAIN login_attempts']_vars

(***************************************************************************)
(* The desktop variant's attendance: Database.mark_attendance,             *)
(* Database.get_attendance_for_month and the CalendarPopup.  A date string *)
(* 'YYYY-MM-DD' is <<year, m1, m2, d1, d2>> with the two digits of the     *)
(* month and of the day.  A row of attendance is [worker_id, date,         *)
(* status]; its id and created_at are left out.                            *)
(***************************************************************************)
DeskValidStatuses == {"present", "absent", "half-day", "unmarked"}

\* f"{self.year}-{str(self.month).zfill(2)}-{str(day).zfill(2)}" (line 980)
FormatDate(year, month, day) == <<year, month \div 10, month % 10, day \div 10, day % 10>>

\* f"{year}-{str(month).zfill(2)}" (line 189) and strftime('%Y-%m', date)
FormatMonth(year, month) == <<year, month \div 10, month % 10>>
MonthPart(date_str) == SubSeq(date_str, 1, 3)

\* datetime.strptime(d.split(' ')[0], '%Y-%m-%d').day (line 203)
DayPart(date_str) == 10 * date_str[4] + date_str[5]

DeskWorkerActive(ws, worker_id) == \E w \in ws : w.id = worker_id /\ w.active

\* Database.mark_attendance (lines 157-181): the exception it raises, the table
\* it leaves
DeskMarkAttendance(ws, att, worker_id, date_str, status) ==
    IF status \notin DeskValidStatuses
    THEN [exc |-> ValueError("Invalid status"), attendance |-> att]
    ELSE IF ~DeskWorkerActive(ws, worker_id)
    THEN [exc |-> ValueError("Worker not found or inactive"), attendance |-> att]
    ELSE IF status = "unmarked"
    THEN [exc |-> NoExc,
          attendance |-> {a \in att : ~(a.worker_id = worker_id /\ a.date = date_str)}]
    ELSE [exc |-> NoExc, attendance |-> Upsert(att, worker_id, date_str, status)]

\* Database.get_attendance_for_month (lines 183-204): the dictionary day -> status
GetAttendanceForMonth(ws, att, worker_id, month, year) ==
    LET rows == {a \in att : /\ a.worker_id = worker_id
                             /\ MonthPart(a.date) = FormatMonth(year, month)
                             /\ DeskWorkerActive(ws, a.worker_id)}
    IN  [day \in {DayPart(a.date) : a \in rows} |->
            (CHOOSE a \in rows : DayPart(a.date) = day).status]

\* dict.get(key, default)
DictGet(d, key, default) == IF key \in DOMAIN d THEN d[key] ELSE default

\* a toggle between present and unmarked only
NextStatusTwoWay ==
    [unmarked |-> "present", present |-> "unmarked", absent |-> "unmarked"]

\* the dictionary of lines 974-978
NextStatus == [unmarked |-> "present", present |-> "absent", absent |-> "unmarked"]

\* CalendarPopup.toggle_attendance(day) (lines 969-983) with refresh_calendar:
\* the exception raised, the table and the popup left
ToggleResult(ws, att, pop, day) ==
    LET current_status == DictGet(pop.attendance_data, day, "unmarked")
        date_str == FormatDate(pop.year, pop.month, day)
    IN  IF current_status \notin DOMAIN NextStatus
        THEN [exc |-> Exc("KeyError", current_status), attendance |-> att, popup |-> pop]
        ELSE LET m == DeskMarkAttendance(ws, att, pop.worker_id, date_str,
                                         NextStatus[current_status])
             IN  IF m.exc # NoExc
                 THEN [exc |-> m.exc, attendance |-> att, popup |-> pop]
                 ELSE [exc |-> NoExc, attendance |-> m.attendance,
                       popup |-> [pop EXCEPT !.attendance_data =
                                     GetAttendanceForMonth(ws, m.attendance, pop.worker_id,
                                                           pop.month, pop.year)]]

\* CalendarPopup.__init__ (lines 877-894), opened for a worker of the list
DeskOpenPopup(worker_id, month, year) ==
    /\ ~popup.open
    /\ \E w \in deskWorkers : w.id = worker_id
    /\ popup' = [open |-> TRUE, worker_id |-> worker_id, month |-> month, year |-> year,
                 attendance_data |-> GetAttendanceForMonth(deskWorkers, deskAttendance,
                                                           worker_id, month, year)]
    /\ UNCHANGED <<authVars, plumbVars, dbVars, cache, now, pc, req, last, deskWorkers,
                   deskNextId, deskAdvances, deskAttendance>>

\* a click on the button of a day
DeskToggle(day) ==
    LET r == ToggleResult(deskWorkers, deskAttendance, popup, day)
    IN  /\ popup.open
        /\ deskAttendance' = r.attendance
        /\ popup' = r.popup
        /\ last' = Response("toggle_attendance", [day |-> day], 0, r.exc, NoRet)
        /\ UNCHANGED <<authVars, plumbVars, dbVars, cache, now, pc, req, deskWorkers,
                       deskNextId, deskAdvances>>

\* the months the popup is taken through
PopupMonths == {<<2025, 12>>, <<2026, 1>>}
PopupDays == {1, 31}

\* CalendarPopup.change_month (lines 992-1007)
DeskChangeMonth(delta) ==
    LET month == IF delta = 1 THEN (IF popup.month = 12 THEN 1 ELSE popup.month + 1)
                 ELSE (IF popup.month = 1 THEN 12 ELSE popup.month - 1)
        year == IF delta = 1 THEN (IF popup.month = 12 THEN popup.year + 1 ELSE popup.year)
                ELSE (IF popup.month = 1 THEN popup.year - 1 ELSE popup.year)
    IN  /\ popup.open
        /\ <<year, month>> \in PopupMonths
        /\ popup' = [popup EXCEPT !.month = month, !.year = year,
                                  !.attendance_data =
                                      GetAttendanceForMonth(deskWorkers, deskAttendance,
                                                            popup.worker_id, month, year)]
        /\ UNCHANGED <<authVars, plumbVars, dbVars, cache, now, pc, req, last, deskWorkers,
                       deskNextId, deskAdvances, deskAttendance>>

\* the popup is closed
DeskClosePopup ==
    /\ popup.open
    /\ popup' = NoPopup
    /\ UNCHANGED <<authVars, plumbVars, dbVars, cache, now, pc, req, last, deskWorkers,
                   deskNextId, deskAdvances, deskAttendance>>

NextDesk ==
    \/ \E name \in PlainNames : DeskAddWorker(name, 600)
    \/ \E id \in 1..MaxWorkers, ym \in PopupMonths : DeskOpenPopup(id, ym[2], ym[1])
    \/ \E day \in PopupDays : DeskToggle(day)
    \/ \E delta \in {-1, 1} : DeskChangeMonth(delta)
    \/ DeskClosePopup

SpecDesk == Init /\ [][NextDesk]_vars

\* the status stored for (worker_id, date_str): 'unmarked' when there is no row
StoredStatus(att, worker_id, date_str) ==
    IF \E a \in att : a.worker_id = worker_id /\ a.date = date_str
    THEN (CHOOSE a \in att : a.worker_id = worker_id /\ a.date = date_str).status
    ELSE "unmarked"

OtherRows(att, worker_id, date_str) ==
    {a \in att : ~(a.worker_id = worker_id /\ a.date = date_str)}

====
